---- MODULE Spec2Model ----
(***************************************************************************)
(* Loan Risk Assistant: the assessment orchestrator                        *)
(* (loan_risk_assistant/agent.py), its data model (models.py) and the      *)
(* dict-based adapter layer (agnostic_adapter.py).                         *)
(*                                                                         *)
(* Conventions.                                                            *)
(*  - A Python dict is a function whose DOMAIN is the set of keys present. *)
(*  - A dataclass instance is a record.                                    *)
(*  - None is the record None; a local not yet assigned holds None.        *)
(*  - A risk score is an integer number of tenths of a point (55.0 is 550).*)
(*  - An APR is an integer number of thousandths of a percent (8.5 is 8500)*)
(*  - A text is a sequence of one-character strings.                       *)
(***************************************************************************)
EXTENDS Integers, Sequences, FiniteSets, TLC

VARIABLES
    self,                 \* the LoanRiskAssistant's fields
    via_adapter,          \* TRUE: driven by LoanRiskAgnosticAgent.run
    application,          \* the LoanApplication given to assess
    pc,                   \* position of the running assess call
    governance_ids,       \* local of assess
    policy_chunks,        \* local of assess
    risk_result,          \* local of assess
    resolved_policies,    \* local of assess
    policy_citations,     \* local of assess
    risk_tier,            \* local of assess
    reasons,              \* local of assess
    requested_documents,  \* local of assess
    tool_response_id,     \* local of assess
    interest_band,        \* local of assess
    user_packet_payload,  \* local of assess
    user_packet,          \* local of assess
    response,             \* what assess returned, None before it returns
    raised,               \* the fault that left assess, None if none did
    trace,                \* every call made on an underlying tool, in order
    log_counter,          \* the governance logger's own counter
    quote_text,           \* PolicyChunk.text of the chunk being quoted
    quote_result,         \* what PolicyChunk.quote returned for it
    adapter_input,        \* what an adapter handler, wrapper or converter is given
    adapter_output,       \* what it returned or raised for it
    running,              \* the assess call whose locals the variables above hold
    frames                \* the locals of the other assess calls, by call

vars == <<self, via_adapter, application, pc, governance_ids, policy_chunks,
          risk_result, resolved_policies, policy_citations, risk_tier, reasons,
          requested_documents, tool_response_id, interest_band,
          user_packet_payload, user_packet, response, raised, trace,
          log_counter, quote_text, quote_result, adapter_input, adapter_output,
          running, frames>>

(***************************************************************************)
(* Bounds of the model.                                                    *)
(***************************************************************************)
\* the policy retriever returns every list of up to MaxChunks chunks
MaxChunks == 2
\* and one list of MaxRetrieved chunks, more than the citations hold
MaxRetrieved == 6
\* assess calls made on one assistant
MaxCalls == 2
\* PolicyChunk.quote is applied to texts of up to word_limit + MaxExtraWords words
MaxExtraWords == 2

(***************************************************************************)
(* Python values.                                                          *)
(***************************************************************************)
None == [none |-> TRUE]

\* an Optional[str] that is not None
Some(v) == [some |-> v]

EmptyDict == <<>>

\* dict.get(k, default)
Get(d, k, default) == IF k \in DOMAIN d THEN d[k] ELSE default

\* bool(d.get(k)) for a key that holds a list: a missing key gives None
TruthyList(d, k) == k \in DOMAIN d /\ Len(d[k]) > 0

\* bool(d.get(k)) / bool(d.get(k, False)) for a key that holds a bool
TruthyBool(d, k) == k \in DOMAIN d /\ d[k]

RECURSIVE SeqsUpTo(_, _)
\* the sequences over S of length at most n
SeqsUpTo(S, n) ==
    IF n = 0 THEN {<<>>}
    ELSE LET shorter == SeqsUpTo(S, n - 1)
         IN  shorter \cup {Append(s, x) : s \in {t \in shorter : Len(t) = n - 1}, x \in S}

\* the characters of the strings used as text
Chars(str) ==
    CASE str = "CREDIT_SCORE" -> <<"C","R","E","D","I","T","_","S","C","O","R","E">>
      [] str = "dti_ratio"    -> <<"d","t","i","_","r","a","t","i","o">>
      [] str = "CRED"         -> <<"C","R","E","D">>
      [] str = "DTI"          -> <<"D","T","I">>
      [] str = "CREDIT"       -> <<"C","R","E","D","I","T">>

LowerCase == <<"a","b","c","d","e","f","g","h","i","j","k","l","m",
               "n","o","p","q","r","s","t","u","v","w","x","y","z">>

UpperCase == <<"A","B","C","D","E","F","G","H","I","J","K","L","M",
               "N","O","P","Q","R","S","T","U","V","W","X","Y","Z">>

UpperAsIs(s) == s

\* str.upper()
Upper(s) ==
    [i \in 1..Len(s) |->
        IF \E j \in 1..Len(LowerCase) : LowerCase[j] = s[i]
        THEN UpperCase[CHOOSE j \in 1..Len(LowerCase) : LowerCase[j] = s[i]]
        ELSE s[i]]

\* str.startswith(prefix)
StartsWith(s, prefix) ==
    Len(s) >= Len(prefix) /\ SubSeq(s, 1, Len(prefix)) = prefix

(***************************************************************************)
(* models.py                                                               *)
(***************************************************************************)
IsSpace(c) == c \in {" ", "\t", "\n"}

RECURSIVE SplitRange(_, _, _)
\* the words of s[lo..hi]; a word cut by the middle is put together again
SplitRange(s, lo, hi) ==
    IF lo > hi THEN <<>>
    ELSE IF lo = hi THEN (IF IsSpace(s[lo]) THEN <<>> ELSE <<<<s[lo]>>>>)
    ELSE LET mid == (lo + hi) \div 2
             left == SplitRange(s, lo, mid)
             right == SplitRange(s, mid + 1, hi)
         IN  IF ~IsSpace(s[mid]) /\ ~IsSpace(s[mid + 1])
             THEN SubSeq(left, 1, Len(left) - 1)
                  \o <<left[Len(left)] \o right[1]>> \o Tail(right)
             ELSE left \o right

\* str.split(): the maximal runs of non-whitespace characters, in order
Split(s) == SplitRange(s, 1, Len(s))

RECURSIVE JoinRange(_, _, _, _)
JoinRange(sep, words, lo, hi) ==
    IF lo > hi THEN <<>>
    ELSE IF lo = hi THEN words[lo]
    ELSE LET mid == (lo + hi) \div 2
         IN  JoinRange(sep, words, lo, mid) \o sep \o JoinRange(sep, words, mid + 1, hi)

\* " ".join(words)
JoinSpace(words) == JoinRange(<<" ">>, words, 1, Len(words))

word_limit == 50

quote_strict(text) ==
    LET words == Split(text)
    IN  IF Len(words) < word_limit THEN text
        ELSE JoinSpace(SubSeq(words, 1, word_limit))

\* PolicyChunk.quote(word_limit=50)
quote(text) ==
    LET words == Split(text)
    IN  IF Len(words) <= word_limit THEN text
        ELSE JoinSpace(SubSeq(words, 1, word_limit))

(***************************************************************************)
(* Texts: the i-th word of every text is Word(i), one or two letters long; *)
(* the texts differ in their number of words and in their whitespace.      *)
(***************************************************************************)
Word(i) ==
    IF i % 3 = 0 THEN <<LowerCase[(i % 26) + 1], UpperCase[(i % 7) + 1]>>
    ELSE <<LowerCase[(i % 26) + 1]>>

Separators == {<<" ">>, <<" ", " ">>, <<"\n">>}

TextOf(n, sep, lead, trail) ==
    (IF lead THEN <<" ">> ELSE <<>>)
    \o JoinRange(sep, [i \in 1..n |-> Word(i)], 1, n)
    \o (IF trail THEN <<"\n">> ELSE <<>>)

Texts ==
    {TextOf(n, sep, lead, trail) :
        n \in 0..(word_limit + MaxExtraWords), sep \in Separators,
        lead \in BOOLEAN, trail \in BOOLEAN}

\* the text of the chunks the retriever and policy-by-id return: three words
\* after a leading blank, two blanks between them
ShortText == TextOf(3, <<" ", " ">>, TRUE, FALSE)

(***************************************************************************)
(* The inputs: applications, and what the tools return.                    *)
(***************************************************************************)
\* the borrower of the tests, and borrowers with each employment type and
\* each income_verified flag, present and missing
Borrowers ==
    {[credit_score |-> 610, income_verified |-> FALSE],
     [credit_score |-> 610, employment_type |-> "self_employed", income_verified |-> TRUE],
     [credit_score |-> 610, employment_type |-> "salaried", income_verified |-> TRUE],
     [credit_score |-> 610, employment_type |-> "self_employed"],
     [credit_score |-> 610, employment_type |-> "salaried", income_verified |-> FALSE]}

Loans ==
    {[collateral_required |-> FALSE],
     [collateral_required |-> TRUE],
     [collateral_required |-> TRUE, collateral_documents |-> <<>>],
     [collateral_required |-> TRUE, collateral_documents |-> <<"deed.pdf">>]}

Applications ==
    {[application_id |-> "APP-001", borrower |-> b, loan |-> l, region |-> "NY",
      product |-> "smb_term", context |-> None] : b \in Borrowers, l \in Loans}

\* the chunk of the test fixtures: guidance, a complete interest band with
\* its own reference and conditions, one required document
ChunkXyz ==
    [chunk_id |-> "chunk-xyz", title |-> "SMB Lending Policy", section |-> "3.1",
     text |-> ShortText,
     metadata |->
        [guidance |-> "Documented collateral required",
         interest_band |-> [min_apr |-> 6000, max_apr |-> 8500,
                            policy_reference |-> "POL-APR-01",
                            conditions |-> <<"Manual review">>],
         required_documents |-> <<"Collateral appraisal report">>]]

\* a band with a minimum of 0, no reference and no conditions; documents named
\* twice and named by the orchestrator's own rules too
Chunk001 ==
    [chunk_id |-> "chunk-001", title |-> "SMB Term Lending Manual", section |-> "4.2",
     text |-> ShortText,
     metadata |->
        [interest_band |-> [min_apr |-> 0, max_apr |-> 9504],
         required_documents |-> <<"Signed personal financial statement",
                                  "Collateral ownership evidence",
                                  "Signed personal financial statement">>]]

\* guidance and an incomplete band
Chunk002 ==
    [chunk_id |-> "chunk-002", title |-> "Collateral Guide", section |-> "1",
     text |-> ShortText,
     metadata |->
        [guidance |-> "Check collateral",
         interest_band |-> [min_apr |-> 5000]]]

ChunkPool == {ChunkXyz, Chunk001, Chunk002}

\* MaxRetrieved chunks: the chunks of the pool in turn, again and again
LongList ==
    [i \in 1..MaxRetrieved |->
        CASE i % 3 = 1 -> ChunkXyz [] i % 3 = 2 -> Chunk001 [] OTHER -> Chunk002]

\* what the policy retriever may return
RetrievedLists == SeqsUpTo(ChunkPool, MaxChunks) \cup {LongList}

\* the canonical chunk of the adapter test's policy-by-id tool: no metadata
CanonicalChunk(chunk_id) ==
    [chunk_id |-> chunk_id, title |-> "SMB Lending Policy (canonical)",
     section |-> "3.1", text |-> ShortText, metadata |-> EmptyDict]

\* a canonical chunk with a band of its own and an empty band
RevisedChunk(chunk_id) ==
    [chunk_id |-> chunk_id, title |-> "SMB Lending Policy (revised)",
     section |-> "3.2", text |-> ShortText,
     metadata |->
        IF chunk_id = "chunk-xyz"
        THEN [interest_band |-> EmptyDict]
        ELSE [interest_band |-> [min_apr |-> 4250, max_apr |-> 7000,
                                 conditions |-> <<"Auto-pay enrollment">>]]]

PolicyByIdKinds == {"same", "canonical", "none", "first_revised", "misfiled"}

\* what the policy-by-id tool may return for the ids asked: a mapping from some
\* of the ids to chunks
PolicyByIdResult(kind, ids) ==
    LET asked == {ids[i] : i \in 1..Len(ids)}
    IN  CASE kind = "same" ->
                [id \in asked |-> CHOOSE c \in ChunkPool : c.chunk_id = id]
          [] kind = "canonical" -> [id \in asked |-> CanonicalChunk(id)]
          [] kind = "none" -> EmptyDict
          [] kind = "first_revised" -> [id \in {ids[1]} |-> RevisedChunk(id)]
          [] kind = "misfiled" ->
                [id \in asked |-> IF id = "chunk-xyz" THEN Chunk001 ELSE ChunkXyz]

\* in tenths of a point: 33.9, 34.0, 55.0, 66.9, 67.0, and 150.0, which the
\* scorer is free to return as any other float
Scores == {339, 340, 550, 669, 670, 1500}

ReasonCode(code, description) == [code |-> code, description |-> description]

RiskFeature(code, description, value, direction, weight) ==
    [code |-> code, description |-> description, value |-> value,
     direction |-> direction, weight |-> weight]

CreditReason == ReasonCode("CREDIT_SCORE", "Credit score below target")

DtiReason == ReasonCode("dti_ratio", "Elevated debt-to-income ratio")

CredReason == ReasonCode("CRED", "Credibility")

CreditFeature ==
    RiskFeature("CREDIT_SCORE", "Credit score below internal target", 610, "increase", 21)

DtiFeature ==
    RiskFeature("dti_ratio", "Debt-to-income ratio above 40%", 46, "Decrease", 19)

\* n reason codes: the three reason codes in turn
ManyReasons(n) ==
    [i \in 1..n |->
        CASE i % 3 = 1 -> CredReason [] i % 3 = 2 -> DtiReason [] OTHER -> CreditReason]

\* what the risk scorer may return: every score with the fixtures' feature and
\* reason code, and the other features and reason codes at the fixtures' score,
\* seven and nine reason codes among them
RiskResults ==
    {[score |-> s, features |-> <<CreditFeature>>, reason_codes |-> <<CreditReason>>] :
        s \in Scores}
    \cup {[score |-> 550, features |-> <<>>, reason_codes |-> <<>>],
          [score |-> 550, features |-> <<CreditFeature, DtiFeature>>,
           reason_codes |-> <<DtiReason, CreditReason>>],
          [score |-> 550, features |-> <<>>, reason_codes |-> <<CredReason>>],
          [score |-> 550, features |-> <<DtiFeature>>, reason_codes |-> ManyReasons(7)],
          [score |-> 550, features |-> <<>>, reason_codes |-> ManyReasons(9)]}

\* what the document requester may return for a list of documents: the
\* responses of the fixtures, responses with empty and with several identifier
\* keys, and a response that is no dict
DocsResponses(documents) ==
    {[requested |-> documents, request_id |-> "doc-req-1"],
     [requested |-> documents, crm_ticket |-> "CRM-12345"],
     [requested |-> documents, request_id |-> "", id |-> "REQ-2", log_id |-> "LOG-9"],
     [requested |-> documents, identifier |-> "", response_id |-> "RESP-3",
      log_id |-> "LOG-9"],
     [requested |-> documents, request_id |-> "", log_id |-> ""],
     None}

InterestBand(min_apr, max_apr, policy_reference, conditions) ==
    [min_apr |-> min_apr, max_apr |-> max_apr,
     policy_reference |-> policy_reference, conditions |-> conditions]

\* what the interest resolver may return
ResolverResults ==
    {None, InterestBand(7250, 9504, "POL-INT-2024-1", <<"Auto-pay enrollment">>)}

\* what the packet composer returns
ComposedPacket == [format |-> "html", content |-> "ok"]

\* the faults a tool may raise
Faults == {"TimeoutError"}

(***************************************************************************)
(* agent.py: the helper methods of LoanRiskAssistant                       *)
(***************************************************************************)
\* bool(application.context): None and the empty dict are falsy
HasContext(app) == app.context # None /\ DOMAIN app.context # {}

\* the query is the sequence of its terms, which the code joins by blanks; a
\* context term is <<key, value>> for the code's "key:value"
_build_policy_query(app) ==
    LET context_terms ==
            IF HasContext(app)
            THEN LET key == CHOOSE k \in DOMAIN app.context : TRUE
                 IN  <<<<key, app.context[key]>>>>
            ELSE <<>>
        base_terms == <<<<app.region>>, <<app.product>>, <<"risk tiering">>,
                        <<"interest band">>, <<"documentation">>>>
    IN  SelectSeq(base_terms \o context_terms, LAMBDA term : term # <<"">>)

_build_risk_payload(app) ==
    LET payload == [application_id |-> app.application_id, borrower |-> app.borrower,
                    loan |-> app.loan, region |-> app.region, product |-> app.product]
    IN  IF HasContext(app) THEN payload @@ [context |-> app.context] ELSE payload

_resolve_policy_chunks_dropping(chunks, resolved) ==
    LET found == SelectSeq(chunks, LAMBDA chunk : chunk.chunk_id \in DOMAIN resolved)
    IN  [i \in 1..Len(found) |-> resolved[found[i].chunk_id]]

\* the loop of _resolve_policy_chunks over what get_policy_by_id returned
_resolve_policy_chunks(chunks, resolved) ==
    [i \in 1..Len(chunks) |-> Get(resolved, chunks[i].chunk_id, chunks[i])]

_build_policy_citations_uncapped(chunks) ==
    [i \in 1..Len(chunks) |->
        [chunk_id |-> chunks[i].chunk_id, title |-> chunks[i].title,
         section |-> chunks[i].section, quote |-> quote(chunks[i].text)]]

_build_policy_citations(chunks) ==
    LET first == SubSeq(chunks, 1, IF Len(chunks) < 5 THEN Len(chunks) ELSE 5)
    IN  [i \in 1..Len(first) |->
            [chunk_id |-> first[i].chunk_id, title |-> first[i].title,
             section |-> first[i].section, quote |-> quote(first[i].text)]]

_tier_from_score_inclusive(score) ==
    IF score <= 34 * 10 THEN "Low"
    ELSE IF score <= 67 * 10 THEN "Med"
    ELSE "High"

_tier_from_score(score) ==
    IF score < 34 * 10 THEN "Low"
    ELSE IF score < 67 * 10 THEN "Med"
    ELSE "High"

\* str.lower() of a feature direction
lower(direction) ==
    CASE direction = "Increase" -> "increase"
      [] direction = "Decrease" -> "decrease"
      [] OTHER -> direction

\* the reasons list of _build_reasons before its last line cuts it; the detail
\* of a reason is the sequence of the parts the code formats into one string
ReasonEntries(result, chunks) ==
    LET codes == {result.features[i].code : i \in 1..Len(result.features)}
        \* the dict comprehension keeps the last feature of each code
        feature_lookup ==
            [c \in codes |->
                result.features[CHOOSE i \in 1..Len(result.features) :
                    /\ result.features[i].code = c
                    /\ \A j \in (i + 1)..Len(result.features) :
                          result.features[j].code # c]]
        feature_reason(reason) ==
            LET detail ==
                    IF reason.code \in DOMAIN feature_lookup
                    THEN LET feature == feature_lookup[reason.code]
                             direction == IF lower(feature.direction) = "increase"
                                          THEN "raised" ELSE "reduced"
                         IN  <<reason.description, "feature value", feature.value,
                               direction, "risk">>
                    ELSE <<reason.description>>
            IN  [label |-> reason.description, detail |-> detail,
                 source |-> [type |-> "feature", id_or_code |-> reason.code]]
        policy_reason(chunk) ==
            [label |-> chunk.metadata.guidance, detail |-> quote(chunk.text),
             source |-> [type |-> "policy", id_or_code |-> chunk.chunk_id]]
        guided == SelectSeq(chunks, LAMBDA chunk : "guidance" \in DOMAIN chunk.metadata)
    IN  [i \in 1..Len(result.reason_codes) |-> feature_reason(result.reason_codes[i])]
        \o [i \in 1..Len(guided) |-> policy_reason(guided[i])]

_build_reasons_uncapped(result, chunks) == ReasonEntries(result, chunks)

\* reasons[:8]
_build_reasons(result, chunks) ==
    LET all == ReasonEntries(result, chunks)
    IN  SubSeq(all, 1, IF Len(all) < 8 THEN Len(all) ELSE 8)

\* the strings that name documents, in ascending code point order: Python's
\* order of str
StrOrder ==
    <<"Collateral appraisal report",
      "Collateral ownership evidence",
      "Detailed debt obligation schedule",
      "Most recent 2 years of tax returns",
      "Recent income verification (e.g., pay stubs or bank statements)",
      "Signed personal financial statement",
      "Updated credit bureau report">>

\* a < b for two str
StrLess(a, b) ==
    (CHOOSE i \in 1..Len(StrOrder) : StrOrder[i] = a)
        < (CHOOSE i \in 1..Len(StrOrder) : StrOrder[i] = b)

RECURSIVE sorted(_)
\* sorted(a set of str)
sorted(S) ==
    IF S = {} THEN <<>>
    ELSE LET least == CHOOSE x \in S : \A y \in S : ~StrLess(y, x)
         IN  <<least>> \o sorted(S \ {least})

\* the documents the rules of _determine_requested_documents add, in the
\* order the code adds them
AddedDocuments(app, result, chunks) ==
    LET borrower == app.borrower
        code_upper(i) == Upper(Chars(result.reason_codes[i].code))
        required(chunk) == Get(chunk.metadata, "required_documents", <<>>)
        RECURSIVE of_chunks(_)
        of_chunks(i) == IF i > Len(chunks) THEN <<>>
                        ELSE required(chunks[i]) \o of_chunks(i + 1)
        RECURSIVE of_codes(_)
        of_codes(i) ==
            IF i > Len(result.reason_codes) THEN <<>>
            ELSE (IF StartsWith(code_upper(i), Chars("DTI"))
                  THEN <<"Detailed debt obligation schedule">> ELSE <<>>)
                 \o (IF StartsWith(code_upper(i), Chars("CREDIT"))
                     THEN <<"Updated credit bureau report">> ELSE <<>>)
                 \o of_codes(i + 1)
    IN  (IF "employment_type" \in DOMAIN borrower
            /\ borrower.employment_type = "self_employed"
         THEN <<"Most recent 2 years of tax returns">> ELSE <<>>)
        \o (IF ~TruthyBool(borrower, "income_verified")
            THEN <<"Recent income verification (e.g., pay stubs or bank statements)">>
            ELSE <<>>)
        \o (IF TruthyBool(app.loan, "collateral_required")
               /\ ~TruthyList(app.loan, "collateral_documents")
            THEN <<"Collateral ownership evidence">> ELSE <<>>)
        \o of_codes(1)
        \o of_chunks(1)

_determine_requested_documents_unsorted(app, result, chunks) ==
    AddedDocuments(app, result, chunks)

_determine_requested_documents(app, result, chunks) ==
    LET added == AddedDocuments(app, result, chunks)
    IN  sorted({added[i] : i \in 1..Len(added)})

HasCompleteBandNonZero(chunk) ==
    /\ "interest_band" \in DOMAIN chunk.metadata
    /\ DOMAIN chunk.metadata.interest_band # {}
    /\ "min_apr" \in DOMAIN chunk.metadata.interest_band
    /\ "max_apr" \in DOMAIN chunk.metadata.interest_band
    /\ chunk.metadata.interest_band.min_apr # 0
    /\ chunk.metadata.interest_band.max_apr # 0

\* bool(band_data) and both APR keys present: the chunk carries a band the
\* scan of _determine_interest_band accepts
HasCompleteBand(chunk) ==
    /\ "interest_band" \in DOMAIN chunk.metadata
    /\ DOMAIN chunk.metadata.interest_band # {}
    /\ "min_apr" \in DOMAIN chunk.metadata.interest_band
    /\ "max_apr" \in DOMAIN chunk.metadata.interest_band

BandOfChunkSwapped(chunk) ==
    LET band_data == chunk.metadata.interest_band
    IN  InterestBand(band_data.max_apr, band_data.min_apr,
                     Get(band_data, "policy_reference", chunk.chunk_id),
                     Get(band_data, "conditions", <<>>))

\* the InterestBand built at agent.py lines 308-314
BandOfChunk(chunk) ==
    LET band_data == chunk.metadata.interest_band
    IN  InterestBand(band_data.min_apr, band_data.max_apr,
                     Get(band_data, "policy_reference", chunk.chunk_id),
                     Get(band_data, "conditions", <<>>))

_determine_interest_band_metadata_first(resolver_band, chunks) ==
    IF \E i \in 1..Len(chunks) : HasCompleteBand(chunks[i])
    THEN BandOfChunk(chunks[CHOOSE i \in 1..Len(chunks) :
            /\ HasCompleteBand(chunks[i])
            /\ \A j \in 1..(i - 1) : ~HasCompleteBand(chunks[j])])
    ELSE resolver_band

_determine_interest_band_last_resort(resolver_band, chunks) ==
    IF resolver_band # None THEN resolver_band
    ELSE IF chunks # <<>> /\ "interest_band" \in DOMAIN chunks[1].metadata
         THEN InterestBand(Get(chunks[1].metadata.interest_band, "min_apr", 0),
                           Get(chunks[1].metadata.interest_band, "max_apr", 0),
                           chunks[1].chunk_id, <<>>)
         ELSE None

\* resolver_band is what interest_policy_resolver returned, None when no
\* resolver is configured (an InterestBand is always truthy)
_determine_interest_band(resolver_band, chunks) ==
    IF resolver_band # None THEN resolver_band
    ELSE IF \E i \in 1..Len(chunks) : HasCompleteBand(chunks[i])
         THEN BandOfChunk(chunks[CHOOSE i \in 1..Len(chunks) :
                 /\ HasCompleteBand(chunks[i])
                 /\ \A j \in 1..(i - 1) : ~HasCompleteBand(chunks[j])])
         ELSE None

\* round(apr, 2): the nearest hundredth, in thousandths; no APR of the model
\* lies halfway between two hundredths
round2(apr) == ((apr + 5) \div 10) * 10

\* dataclasses.asdict(band)
asdict(band) ==
    [min_apr |-> band.min_apr, max_apr |-> band.max_apr,
     policy_reference |-> band.policy_reference, conditions |-> band.conditions]

\* the user_packet_payload of assess; its keys in insertion order are
\* PayloadKeys
UserPacketPayload(app, result, tier, reason_list, documents, citations, band) ==
    [application_id |-> app.application_id,
     risk_score |-> [value |-> result.score, tier |-> tier],
     reasons |-> reason_list,
     requested_documents |-> documents,
     policy_citations |-> citations,
     interest_band |-> IF band # None THEN asdict(band) ELSE None]

PayloadKeys ==
    <<"application_id", "risk_score", "reasons", "requested_documents",
      "policy_citations", "interest_band">>

InterestRateSuggestion(band) ==
    IF band # None
    THEN [band_apr_percent |-> <<round2(band.min_apr), round2(band.max_apr)>>,
          basis |-> band.policy_reference,
          conditions |-> band.conditions]
    ELSE None

\* the response of assess
Response(app, result, tier, reason_list, citations, documents, band, log_ids, packet) ==
    [application_id |-> app.application_id,
     risk_score |-> [value |-> result.score, scale |-> "0-100", tier |-> tier],
     reasons |-> reason_list,
     policy_citations |-> citations,
     requested_documents |-> documents,
     interest_rate_suggestion |-> InterestRateSuggestion(band),
     compliance |-> [region |-> app.region, product |-> app.product,
                     policy_gap |-> (band = None)],
     governance_log_ids |-> log_ids,
     user_packet |-> packet]

\* the candidate keys of the document requester's response, in the order
\* assess tries them
ResponseIdKeys == <<"request_id", "id", "identifier", "response_id", "log_id">>

\* str(value) of a str
str(value) == value

ToolResponseIdLastKey(docs_response) ==
    LET found(i) == /\ ResponseIdKeys[i] \in DOMAIN docs_response
                    /\ docs_response[ResponseIdKeys[i]] # ""
    IN  IF docs_response = None THEN None
        ELSE IF \E i \in 1..Len(ResponseIdKeys) : found(i)
             THEN Some(str(docs_response[ResponseIdKeys[
                     CHOOSE i \in 1..Len(ResponseIdKeys) :
                         found(i) /\ \A j \in (i + 1)..Len(ResponseIdKeys) : ~found(j)]]))
             ELSE None

\* agent.py lines 103-109: None unless the response is a dict; the loop stops
\* at the first candidate key whose value is truthy, and a str is truthy
\* unless it is empty
ToolResponseId(docs_response) ==
    LET found(i) == /\ ResponseIdKeys[i] \in DOMAIN docs_response
                    /\ docs_response[ResponseIdKeys[i]] # ""
    IN  IF docs_response = None THEN None
        ELSE IF \E i \in 1..Len(ResponseIdKeys) : found(i)
             THEN Some(str(docs_response[ResponseIdKeys[
                     CHOOSE i \in 1..Len(ResponseIdKeys) :
                         found(i) /\ \A j \in 1..(i - 1) : ~found(j)]]))
             ELSE None

(***************************************************************************)
(* agnostic_adapter.py: entities to and from string-keyed maps             *)
(***************************************************************************)
\* float(x) of a number: the same number
float(x) == x

\* int(x) of an integer: the same integer
int(x) == x

\* list(xs)
list(xs) == [i \in 1..Len(xs) |-> xs[i]]

Map(f(_), xs) == [i \in 1..Len(xs) |-> f(xs[i])]

_policy_chunk_from_dict(data) ==
    [chunk_id |-> data.chunk_id, title |-> data.title, section |-> data.section,
     text |-> data.text, metadata |-> Get(data, "metadata", EmptyDict)]

_policy_chunk_to_dict(chunk) ==
    [chunk_id |-> chunk.chunk_id, title |-> chunk.title, section |-> chunk.section,
     text |-> chunk.text, metadata |-> chunk.metadata]

_risk_feature_from_dict(data) ==
    [code |-> data.code, description |-> data.description,
     value |-> Get(data, "value", None), direction |-> data.direction,
     weight |-> float(data.weight)]

_risk_feature_to_dict(feature) ==
    [code |-> feature.code, description |-> feature.description,
     value |-> feature.value, direction |-> feature.direction,
     weight |-> feature.weight]

_reason_code_from_dict(data) == [code |-> data.code, description |-> data.description]

_reason_code_to_dict(code) == [code |-> code.code, description |-> code.description]

_risk_result_from_dict(data) ==
    [score |-> float(data.score),
     features |-> Map(_risk_feature_from_dict, Get(data, "features", <<>>)),
     reason_codes |-> Map(_reason_code_from_dict, Get(data, "reason_codes", <<>>))]

_risk_result_to_dict(result) ==
    [score |-> result.score,
     features |-> Map(_risk_feature_to_dict, result.features),
     reason_codes |-> Map(_reason_code_to_dict, result.reason_codes)]

_governance_record_from_dict_empty_hash(data) ==
    [event_type |-> data.event_type, log_id |-> data.log_id,
     payload_hash |-> Get(data, "payload_hash", Some(""))]

_governance_record_from_dict(data) ==
    [event_type |-> data.event_type, log_id |-> data.log_id,
     payload_hash |-> Get(data, "payload_hash", None)]

_governance_record_to_dict(record) ==
    LET result == [event_type |-> record.event_type, log_id |-> record.log_id]
    IN  IF record.payload_hash # None
        THEN result @@ [payload_hash |-> record.payload_hash]
        ELSE result

_interest_band_from_dict(data) ==
    [min_apr |-> float(data.min_apr), max_apr |-> float(data.max_apr),
     policy_reference |-> data.policy_reference,
     conditions |-> list(Get(data, "conditions", <<>>))]

_interest_band_to_dict(band) ==
    [min_apr |-> band.min_apr, max_apr |-> band.max_apr,
     policy_reference |-> band.policy_reference, conditions |-> band.conditions]

(***************************************************************************)
(* agnostic_adapter.py: the adapter handlers, adapt_..., and the agent-side *)
(* wrappers, _wrap_... A handler is split in what it passes to the tool,   *)
(* ..._args, and the response map it builds from the tool's result; a      *)
(* wrapper in the request map it sends, ..._request, and the value it      *)
(* returns to the assistant from the response map.                         *)
(***************************************************************************)
_wrap_policy_docs_retriever_request(query, top_k) == [query |-> query, top_k |-> top_k]

adapt_policy_docs_retriever_args(payload) ==
    <<Get(payload, "query", <<>>), int(Get(payload, "top_k", 5))>>

adapt_policy_docs_retriever(chunks) == [chunks |-> Map(_policy_chunk_to_dict, chunks)]

_wrap_policy_docs_retriever(result) ==
    Map(_policy_chunk_from_dict, Get(result, "chunks", <<>>))

_wrap_risk_scoring_api_request(payload) == [payload |-> payload]

adapt_risk_scoring_api_args(payload) == <<payload.payload>>

adapt_risk_scoring_api(risk) == _risk_result_to_dict(risk)

_wrap_risk_scoring_api(result) == _risk_result_from_dict(result)

_wrap_get_policy_by_id_request(ids) == [ids |-> list(ids)]

adapt_get_policy_by_id_args(payload) == <<Get(payload, "ids", <<>>)>>

\* resolved.values(): the tool's dict holds its chunks in the order of the
\* ids asked
adapt_get_policy_by_id(resolved, ids) ==
    LET firsts == SelectSeq([i \in 1..Len(ids) |-> <<i, ids[i]>>],
                            LAMBDA p : /\ p[2] \in DOMAIN resolved
                                       /\ \A j \in 1..(p[1] - 1) : ids[j] # p[2])
    IN  [chunks |-> [i \in 1..Len(firsts) |-> _policy_chunk_to_dict(resolved[firsts[i][2]])]]

\* the dict comprehension keys each chunk by its own chunk_id; the last chunk
\* of an id stays
_wrap_get_policy_by_id(result) ==
    LET items == Get(result, "chunks", <<>>)
    IN  [id \in {items[i].chunk_id : i \in 1..Len(items)} |->
            _policy_chunk_from_dict(items[CHOOSE i \in 1..Len(items) :
                /\ items[i].chunk_id = id
                /\ \A j \in (i + 1)..Len(items) : items[j].chunk_id # id])]

_wrap_compose_user_packet_request(data) == [data |-> data]

adapt_compose_user_packet_args(payload) == <<payload.data>>

adapt_compose_user_packet(packet) == [packet |-> packet]

_wrap_compose_user_packet(result) == Get(result, "packet", EmptyDict)

_wrap_request_additional_docs_request(documents) == [documents |-> list(documents)]

adapt_request_additional_docs_args(payload) == <<list(Get(payload, "documents", <<>>))>>

adapt_request_additional_docs(request) == [request |-> request]

_wrap_request_additional_docs_whole(result) == result

_wrap_request_additional_docs(result) == Get(result, "request", EmptyDict)

_wrap_governance_log_request(event_type, payload) ==
    [event_type |-> event_type, payload |-> payload]

adapt_governance_log_args(payload) ==
    <<payload.event_type, Get(payload, "payload", EmptyDict)>>

adapt_governance_log(record) == _governance_record_to_dict(record)

_wrap_governance_log(result) == _governance_record_from_dict(result)

_wrap_interest_policy_resolver_request(chunks, tier) ==
    [policy_chunks |-> Map(_policy_chunk_to_dict, chunks), risk_tier |-> tier]

adapt_interest_policy_resolver_args(payload) ==
    <<Map(_policy_chunk_from_dict, Get(payload, "policy_chunks", <<>>)), payload.risk_tier>>

adapt_interest_policy_resolver(band) ==
    [band |-> IF band # None THEN _interest_band_to_dict(band) ELSE None]

_wrap_interest_policy_resolver(result) ==
    LET band_payload == Get(result, "band", None)
    IN  IF band_payload = None \/ DOMAIN band_payload = {} THEN None
        ELSE _interest_band_from_dict(band_payload)

(***************************************************************************)
(* agent.py: LoanRiskAssistant.assess, one action per tool call it makes,  *)
(* each with the statements that follow the call up to the next one.       *)
(* agnostic_adapter.py: LoanRiskAgnosticAgent.run is the same assess with  *)
(* every tool behind its wrapper and its adapter handler.                  *)
(***************************************************************************)
\* the positions of assess at which it logs an event
LogPositions == {"start", "log_retrieval", "log_scored", "log_docs", "log_packet"}

\* a call of an underlying tool: what it received, what it returned or raised,
\* and the assess call that made it
Returned(tool, args, ret) ==
    [tool |-> tool, args |-> args, ret |-> ret, fault |-> "", call |-> running]

Raised(tool, args, f) ==
    [tool |-> tool, args |-> args, ret |-> None, fault |-> f, call |-> running]

\* what the underlying tools receive, directly or through wrapper and handler
GovernanceLogArgs(event_type, payload) ==
    IF via_adapter
    THEN adapt_governance_log_args(_wrap_governance_log_request(event_type, payload))
    ELSE <<event_type, payload>>

RetrieverArgs(query, top_k) ==
    IF via_adapter
    THEN adapt_policy_docs_retriever_args(_wrap_policy_docs_retriever_request(query, top_k))
    ELSE <<query, top_k>>

ScoringArgs(payload) ==
    IF via_adapter
    THEN adapt_risk_scoring_api_args(_wrap_risk_scoring_api_request(payload))
    ELSE <<payload>>

PolicyByIdArgs(ids) ==
    IF via_adapter
    THEN adapt_get_policy_by_id_args(_wrap_get_policy_by_id_request(ids))
    ELSE <<ids>>

RequestDocsArgs(documents) ==
    IF via_adapter
    THEN adapt_request_additional_docs_args(_wrap_request_additional_docs_request(documents))
    ELSE <<documents>>

ResolverArgs(chunks, tier) ==
    IF via_adapter
    THEN adapt_interest_policy_resolver_args(_wrap_interest_policy_resolver_request(chunks, tier))
    ELSE <<chunks, tier>>

ComposeArgs(data) ==
    IF via_adapter
    THEN adapt_compose_user_packet_args(_wrap_compose_user_packet_request(data))
    ELSE <<data>>

EventAtMislabelled(at) ==
    CASE at = "start" -> "problem_received"
      [] at = "log_retrieval" -> "risk_scored"
      [] at = "log_scored" -> "retrieval_done"
      [] at = "log_docs" -> "docs_requested"
      [] at = "log_packet" -> "packet_composed"

\* the type of the event assess logs at a position
EventAt(at) ==
    CASE at = "start" -> "problem_received"
      [] at = "log_retrieval" -> "retrieval_done"
      [] at = "log_scored" -> "risk_scored"
      [] at = "log_docs" -> "docs_requested"
      [] at = "log_packet" -> "packet_composed"

\* the payload of the event assess logs at a position
LogEvent(at) ==
    CASE at = "start" ->
            <<EventAt(at),
              [application_id |-> application.application_id,
               region |-> application.region, product |-> application.product,
               redactions |-> TRUE]>>
      [] at = "log_retrieval" ->
            <<EventAt(at),
              [application_id |-> application.application_id,
               query |-> _build_policy_query(application),
               chunk_ids |-> [i \in 1..Len(policy_chunks) |-> policy_chunks[i].chunk_id]]>>
      [] at = "log_scored" ->
            <<EventAt(at),
              [application_id |-> application.application_id,
               risk_score |-> risk_result.score,
               reason_codes |-> [i \in 1..Len(risk_result.reason_codes) |->
                                    risk_result.reason_codes[i].code]]>>
      [] at = "log_docs" ->
            <<EventAt(at),
              [application_id |-> application.application_id,
               requested_documents |-> requested_documents,
               tool_response_id |-> tool_response_id]>>
      [] at = "log_packet" ->
            <<EventAt(at),
              [application_id |-> application.application_id,
               payload_keys |-> PayloadKeys]>>

\* the call assess makes next from its position: <<tool, args>>, None when it
\* makes none
PendingCall ==
    CASE pc \in LogPositions ->
            <<"governance_log", GovernanceLogArgs(LogEvent(pc)[1], LogEvent(pc)[2])>>
      [] pc = "retrieve" ->
            <<"policy_docs_retriever",
              RetrieverArgs(_build_policy_query(application), self.policy_top_k)>>
      [] pc = "score" ->
            <<"risk_scoring_api", ScoringArgs(_build_risk_payload(application))>>
      [] pc = "resolve" ->
            IF policy_chunks = <<>> THEN None
            ELSE <<"get_policy_by_id",
                   PolicyByIdArgs([i \in 1..Len(policy_chunks) |-> policy_chunks[i].chunk_id])>>
      [] pc = "request_docs" ->
            <<"request_additional_docs", RequestDocsArgs(requested_documents)>>
      [] pc = "band" ->
            IF self.interest_policy_resolver
            THEN <<"interest_policy_resolver", ResolverArgs(resolved_policies, risk_tier)>>
            ELSE None
      [] pc = "compose" ->
            <<"compose_user_packet", ComposeArgs(user_packet_payload)>>
      [] OTHER -> None

OnFaultLogSwallowed(at) == 
    CASE at = "start" -> "retrieve"
      [] at = "log_retrieval" -> "score"
      [] at = "log_scored" -> "resolve"
      [] at = "log_docs" -> "band"
      [] OTHER -> "faulted"

\* where assess is after a fault raised by the call made at a position: no
\* statement of assess catches, so the fault leaves assess
OnFault(at) == "faulted"

fixed == <<self, via_adapter, application, quote_text, quote_result,
           adapter_input, adapter_output, running, frames>>

\* the governance logger of the fixtures: it counts its calls and returns
\* the count as the log id
LoggerRecord(event_type) ==
    [event_type |-> event_type, log_id |-> log_counter + 1, payload_hash |-> None]

LogStepPrepend(next) ==
    LET call == PendingCall
        record == LoggerRecord(call[2][1])
        returned == IF via_adapter
                    THEN _wrap_governance_log(adapt_governance_log(record))
                    ELSE record
    IN  /\ trace' = Append(trace, Returned(call[1], call[2], record))
        /\ log_counter' = log_counter + 1
        /\ governance_ids' = <<returned.log_id>> \o governance_ids
        /\ pc' = next

\* self._log(...).log_id appended to governance_ids
LogStep(next) ==
    LET call == PendingCall
        record == LoggerRecord(call[2][1])
        returned == IF via_adapter
                    THEN _wrap_governance_log(adapt_governance_log(record))
                    ELSE record
    IN  /\ trace' = Append(trace, Returned(call[1], call[2], record))
        /\ log_counter' = log_counter + 1
        /\ governance_ids' = Append(governance_ids, returned.log_id)
        /\ pc' = next

\* agent.py lines 53-64
LogProblemReceived ==
    /\ pc = "start"
    /\ LogStep("retrieve")
    /\ UNCHANGED <<fixed, policy_chunks, risk_result, resolved_policies,
                   policy_citations, risk_tier, reasons, requested_documents,
                   tool_response_id, interest_band, user_packet_payload,
                   user_packet, response, raised>>

\* agent.py lines 66-67
Retrieve ==
    /\ pc = "retrieve"
    /\ \E chunks \in RetrievedLists :
        /\ trace' = Append(trace, Returned(PendingCall[1], PendingCall[2], chunks))
        /\ policy_chunks' =
              IF via_adapter
              THEN _wrap_policy_docs_retriever(adapt_policy_docs_retriever(chunks))
              ELSE chunks
    /\ pc' = "log_retrieval"
    /\ UNCHANGED <<fixed, governance_ids, risk_result, resolved_policies,
                   policy_citations, risk_tier, reasons, requested_documents,
                   tool_response_id, interest_band, user_packet_payload,
                   user_packet, response, raised, log_counter>>

\* agent.py lines 68-77
LogRetrievalDone ==
    /\ pc = "log_retrieval"
    /\ LogStep("score")
    /\ UNCHANGED <<fixed, policy_chunks, risk_result, resolved_policies,
                   policy_citations, risk_tier, reasons, requested_documents,
                   tool_response_id, interest_band, user_packet_payload,
                   user_packet, response, raised>>

\* agent.py lines 79-80
ScoreRisk ==
    /\ pc = "score"
    /\ \E result \in RiskResults :
        /\ trace' = Append(trace, Returned(PendingCall[1], PendingCall[2], result))
        /\ risk_result' =
              IF via_adapter
              THEN _wrap_risk_scoring_api(adapt_risk_scoring_api(result))
              ELSE result
    /\ pc' = "log_scored"
    /\ UNCHANGED <<fixed, governance_ids, policy_chunks, resolved_policies,
                   policy_citations, risk_tier, reasons, requested_documents,
                   tool_response_id, interest_band, user_packet_payload,
                   user_packet, response, raised, log_counter>>

\* agent.py lines 81-90
LogRiskScored ==
    /\ pc = "log_scored"
    /\ LogStep("resolve")
    /\ UNCHANGED <<fixed, policy_chunks, risk_result, resolved_policies,
                   policy_citations, risk_tier, reasons, requested_documents,
                   tool_response_id, interest_band, user_packet_payload,
                   user_packet, response, raised>>

ShouldRequestDocumentsAlways(documents) == TRUE

\* agent.py line 101, "if requested_documents:": a list is truthy unless empty
ShouldRequestDocuments(documents) == documents # <<>>

\* agent.py lines 92-101: _resolve_policy_chunks calls get_policy_by_id unless
\* no chunk was retrieved; citations, tier, reasons and documents follow
ResolveAndDerive ==
    /\ pc = "resolve"
    /\ \E kind \in IF policy_chunks = <<>> THEN {"none"} ELSE PolicyByIdKinds :
        LET ids == [i \in 1..Len(policy_chunks) |-> policy_chunks[i].chunk_id]
            by_id == PolicyByIdResult(kind, ids)
            resolved == IF via_adapter
                        THEN _wrap_get_policy_by_id(
                                 adapt_get_policy_by_id(by_id, PendingCall[2][1]))
                        ELSE by_id
            output == IF policy_chunks = <<>> THEN <<>>
                      ELSE _resolve_policy_chunks(policy_chunks, resolved)
            documents == _determine_requested_documents(application, risk_result, output)
        IN  /\ trace' = IF policy_chunks = <<>> THEN trace
                        ELSE Append(trace, Returned(PendingCall[1], PendingCall[2], by_id))
            /\ resolved_policies' = output
            /\ policy_citations' = _build_policy_citations(output)
            /\ risk_tier' = _tier_from_score(risk_result.score)
            /\ reasons' = _build_reasons(risk_result, output)
            /\ requested_documents' = documents
            /\ pc' = IF ShouldRequestDocuments(documents) THEN "request_docs" ELSE "band"
    /\ UNCHANGED <<fixed, governance_ids, policy_chunks, risk_result,
                   tool_response_id, interest_band, user_packet_payload,
                   user_packet, response, raised, log_counter>>

\* agent.py lines 102-109
RequestDocs ==
    /\ pc = "request_docs"
    /\ \E request \in DocsResponses(PendingCall[2][1]) :
        LET docs_response == IF via_adapter
                             THEN _wrap_request_additional_docs(
                                      adapt_request_additional_docs(request))
                             ELSE request
        IN  /\ trace' = Append(trace, Returned(PendingCall[1], PendingCall[2], request))
            /\ tool_response_id' = ToolResponseId(docs_response)
    /\ pc' = "log_docs"
    /\ UNCHANGED <<fixed, governance_ids, policy_chunks, risk_result,
                   resolved_policies, policy_citations, risk_tier, reasons,
                   requested_documents, interest_band, user_packet_payload,
                   user_packet, response, raised, log_counter>>

\* agent.py lines 111-120
LogDocsRequested ==
    /\ pc = "log_docs"
    /\ LogStep("band")
    /\ UNCHANGED <<fixed, policy_chunks, risk_result, resolved_policies,
                   policy_citations, risk_tier, reasons, requested_documents,
                   tool_response_id, interest_band, user_packet_payload,
                   user_packet, response, raised>>

\* agent.py lines 122-135: _determine_interest_band calls the resolver when
\* one is configured
DetermineInterestBand ==
    /\ pc = "band"
    /\ \E result \in IF self.interest_policy_resolver THEN ResolverResults ELSE {None} :
        LET resolver_band ==
                IF self.interest_policy_resolver /\ via_adapter
                THEN _wrap_interest_policy_resolver(adapt_interest_policy_resolver(result))
                ELSE result
            band == _determine_interest_band(resolver_band, resolved_policies)
        IN  /\ trace' = IF self.interest_policy_resolver
                        THEN Append(trace, Returned(PendingCall[1], PendingCall[2], result))
                        ELSE trace
            /\ interest_band' = band
            /\ user_packet_payload' =
                  UserPacketPayload(application, risk_result, risk_tier, reasons,
                                    requested_documents, policy_citations, band)
    /\ pc' = "compose"
    /\ UNCHANGED <<fixed, governance_ids, policy_chunks, risk_result,
                   resolved_policies, policy_citations, risk_tier, reasons,
                   requested_documents, tool_response_id, user_packet, response,
                   raised, log_counter>>

\* agent.py line 136
ComposePacket ==
    /\ pc = "compose"
    /\ trace' = Append(trace, Returned(PendingCall[1], PendingCall[2], ComposedPacket))
    /\ user_packet' =
          IF via_adapter
          THEN _wrap_compose_user_packet(adapt_compose_user_packet(ComposedPacket))
          ELSE ComposedPacket
    /\ pc' = "log_packet"
    /\ UNCHANGED <<fixed, governance_ids, policy_chunks, risk_result,
                   resolved_policies, policy_citations, risk_tier, reasons,
                   requested_documents, tool_response_id, interest_band,
                   user_packet_payload, response, raised, log_counter>>

\* dataclasses.asdict(application)
asdict_application(app) ==
    [application_id |-> app.application_id, borrower |-> app.borrower,
     loan |-> app.loan, region |-> app.region, product |-> app.product,
     context |-> app.context]

\* agent.py lines 137-178, and agnostic_adapter.py line 372 when run made the
\* call: asdict(application) | response, the response's keys winning
LogPacketComposedAndReturn ==
    /\ pc = "log_packet"
    /\ LogStep("done")
    /\ LET assessed == Response(application, risk_result, risk_tier, reasons,
                                policy_citations, requested_documents, interest_band,
                                governance_ids', user_packet)
       IN  response' = IF via_adapter
                       THEN assessed @@ asdict_application(application)
                       ELSE assessed
    /\ UNCHANGED <<fixed, policy_chunks, risk_result, resolved_policies,
                   policy_citations, risk_tier, reasons, requested_documents,
                   tool_response_id, interest_band, user_packet_payload,
                   user_packet, raised>>

\* any tool call may raise instead of returning
ToolFault ==
    /\ PendingCall # None
    /\ \E f \in Faults :
        /\ trace' = Append(trace, Raised(PendingCall[1], PendingCall[2], f))
        /\ raised' = Some(f)
    /\ pc' = OnFault(pc)
    /\ UNCHANGED <<fixed, governance_ids, policy_chunks, risk_result,
                   resolved_policies, policy_citations, risk_tier, reasons,
                   requested_documents, tool_response_id, interest_band,
                   user_packet_payload, user_packet, response, log_counter>>

\* LoanRiskAssistant.__init__ and the locals of an assess call about to start
InitAssess ==
    /\ self \in {[interest_policy_resolver |-> r, policy_top_k |-> 5] : r \in BOOLEAN}
    /\ application \in Applications
    /\ pc = "start"
    /\ governance_ids = <<>>
    /\ policy_chunks = None
    /\ risk_result = None
    /\ resolved_policies = None
    /\ policy_citations = None
    /\ risk_tier = None
    /\ reasons = None
    /\ requested_documents = None
    /\ tool_response_id = None
    /\ interest_band = None
    /\ user_packet_payload = None
    /\ user_packet = None
    /\ response = None
    /\ raised = None
    /\ trace = <<>>
    /\ log_counter = 0
    /\ quote_text = <<>>
    /\ quote_result = None
    /\ adapter_input = None
    /\ adapter_output = None
    /\ running = 1
    /\ frames = EmptyDict

\* assess called directly
Init ==
    /\ via_adapter = FALSE
    /\ InitAssess

Next ==
    \/ LogProblemReceived
    \/ Retrieve
    \/ LogRetrievalDone
    \/ ScoreRisk
    \/ LogRiskScored
    \/ ResolveAndDerive
    \/ RequestDocs
    \/ LogDocsRequested
    \/ DetermineInterestBand
    \/ ComposePacket
    \/ LogPacketComposedAndReturn
    \/ ToolFault

Spec == Init /\ [][Next]_vars

\* agnostic_adapter.py lines 251-259; dict(...) copies a dict
loan_application_from_dict(payload) ==
    [application_id |-> payload.application_id, borrower |-> payload.borrower,
     loan |-> payload.loan, region |-> payload.region, product |-> payload.product,
     context |-> Get(payload, "context", None)]

\* the request maps given to run: the applications without a context key
RunPayloads ==
    {[application_id |-> a.application_id, borrower |-> a.borrower, loan |-> a.loan,
      region |-> a.region, product |-> a.product] : a \in Applications}

\* LoanRiskAgnosticAgent.__init__ and run called: the resolver is wrapped
\* exactly when available_tools names it
InitRun ==
    /\ via_adapter = TRUE
    /\ InitAssess
    /\ \E payload \in RunPayloads : application = loan_application_from_dict(payload)

SpecRun == InitRun /\ [][Next]_vars

\* PolicyChunk.quote applied to a chunk's text
QuoteChunk ==
    /\ pc = "quote"
    /\ quote_result' = quote(quote_text)
    /\ pc' = "quoted"
    /\ UNCHANGED <<self, via_adapter, application, governance_ids, policy_chunks,
                   risk_result, resolved_policies, policy_citations, risk_tier,
                   reasons, requested_documents, tool_response_id, interest_band,
                   user_packet_payload, user_packet, response, raised, trace,
                   log_counter, quote_text, adapter_input, adapter_output,
                   running, frames>>

InitQuote ==
    /\ quote_text \in Texts
    /\ quote_result = None
    /\ pc = "quote"
    /\ self = [interest_policy_resolver |-> FALSE, policy_top_k |-> 5]
    /\ via_adapter = FALSE
    /\ application = None
    /\ governance_ids = <<>>
    /\ policy_chunks = None
    /\ risk_result = None
    /\ resolved_policies = None
    /\ policy_citations = None
    /\ risk_tier = None
    /\ reasons = None
    /\ requested_documents = None
    /\ tool_response_id = None
    /\ interest_band = None
    /\ user_packet_payload = None
    /\ user_packet = None
    /\ response = None
    /\ raised = None
    /\ trace = <<>>
    /\ log_counter = 0
    /\ adapter_input = None
    /\ adapter_output = None
    /\ running = 1
    /\ frames = EmptyDict

SpecQuote == InitQuote /\ [][QuoteChunk]_vars

(***************************************************************************)
(* agnostic_adapter.py: one adapter handler, one agent-side wrapper or one *)
(* pair of converters, applied to a map it is given; the maps include      *)
(* those that lack keys.                                                   *)
(***************************************************************************)
\* d[key] of a dict without the key raises KeyError(key): the error carries
\* the key and nothing else
KeyError(key) == [raises |-> "KeyError", names |-> {key}]

\* a handler called its tool with args and returned a response map
Handled(args, returned) == [returns |-> returned, called_with |-> args]

\* a wrapper or a converter returned a value
Value(v) == [returns |-> v]

\* the arguments a handler passes to its tool, or the error the handler
\* raises before it calls the tool
handler_args(tool, payload) ==
    CASE tool = "policy_docs_retriever" -> Value(adapt_policy_docs_retriever_args(payload))
      [] tool = "risk_scoring_api" ->
            IF "payload" \in DOMAIN payload
            THEN Value(adapt_risk_scoring_api_args(payload)) ELSE KeyError("payload")
      [] tool = "get_policy_by_id" -> Value(adapt_get_policy_by_id_args(payload))
      [] tool = "compose_user_packet" ->
            IF "data" \in DOMAIN payload
            THEN Value(adapt_compose_user_packet_args(payload)) ELSE KeyError("data")
      [] tool = "request_additional_docs" -> Value(adapt_request_additional_docs_args(payload))
      [] tool = "governance_log" ->
            IF "event_type" \in DOMAIN payload
            THEN Value(adapt_governance_log_args(payload)) ELSE KeyError("event_type")
      [] tool = "interest_policy_resolver" ->
            IF "risk_tier" \in DOMAIN payload
            THEN Value(adapt_interest_policy_resolver_args(payload)) ELSE KeyError("risk_tier")

\* the response map a handler builds from what its tool returned
handler_response(tool, args, result) ==
    CASE tool = "policy_docs_retriever" -> adapt_policy_docs_retriever(result)
      [] tool = "risk_scoring_api" -> adapt_risk_scoring_api(result)
      [] tool = "get_policy_by_id" -> adapt_get_policy_by_id(result, args[1])
      [] tool = "compose_user_packet" -> adapt_compose_user_packet(result)
      [] tool = "request_additional_docs" -> adapt_request_additional_docs(result)
      [] tool = "governance_log" -> adapt_governance_log(result)
      [] tool = "interest_policy_resolver" -> adapt_interest_policy_resolver(result)

\* what a wrapper returns to the assistant for the response map the host
\* gave it, or the error it raises
_call(tool, result) ==
    CASE tool = "policy_docs_retriever" -> Value(_wrap_policy_docs_retriever(result))
      [] tool = "risk_scoring_api" ->
            IF "score" \in DOMAIN result
            THEN Value(_wrap_risk_scoring_api(result)) ELSE KeyError("score")
      [] tool = "get_policy_by_id" -> Value(_wrap_get_policy_by_id(result))
      [] tool = "compose_user_packet" -> Value(_wrap_compose_user_packet(result))
      [] tool = "request_additional_docs" -> Value(_wrap_request_additional_docs(result))
      [] tool = "governance_log" ->
            IF "event_type" \notin DOMAIN result THEN KeyError("event_type")
            ELSE IF "log_id" \notin DOMAIN result THEN KeyError("log_id")
            ELSE Value(_wrap_governance_log(result))
      [] tool = "interest_policy_resolver" -> Value(_wrap_interest_policy_resolver(result))

\* an entity converted to its map and back
to_dict_from_dict(kind, entity) ==
    CASE kind = "PolicyChunk" -> _policy_chunk_from_dict(_policy_chunk_to_dict(entity))
      [] kind = "RiskFeature" -> _risk_feature_from_dict(_risk_feature_to_dict(entity))
      [] kind = "ReasonCode" -> _reason_code_from_dict(_reason_code_to_dict(entity))
      [] kind = "RiskScoreResult" -> _risk_result_from_dict(_risk_result_to_dict(entity))
      [] kind = "GovernanceLogRecord" ->
            _governance_record_from_dict(_governance_record_to_dict(entity))
      [] kind = "InterestBand" -> _interest_band_from_dict(_interest_band_to_dict(entity))

ToolNames ==
    {"policy_docs_retriever", "risk_scoring_api", "get_policy_by_id",
     "compose_user_packet", "request_additional_docs", "governance_log",
     "interest_policy_resolver"}

\* a map and every map that lacks some of its keys
Restrictions(m) == {[k \in K |-> m[k]] : K \in SUBSET DOMAIN m}

\* the application of the tests
SmokeApplication ==
    [application_id |-> "APP-001",
     borrower |-> [credit_score |-> 610, income_verified |-> FALSE],
     loan |-> [collateral_required |-> TRUE], region |-> "NY",
     product |-> "smb_term", context |-> None]

\* the records a governance logger returns, without and with a payload hash
LogRecords(event_type) ==
    {[event_type |-> event_type, log_id |-> 1, payload_hash |-> h] :
        h \in {None, Some("sha256:9f2c")}}

\* what a tool may return to its handler for the arguments it was called with
ToolResults(tool, args) ==
    CASE tool = "policy_docs_retriever" -> {<<>>, <<ChunkXyz>>, <<Chunk001, Chunk002>>}
      [] tool = "risk_scoring_api" -> RiskResults
      [] tool = "get_policy_by_id" ->
            {PolicyByIdResult(kind, args[1]) :
                kind \in IF args[1] = <<>> THEN {"none"} ELSE PolicyByIdKinds}
      [] tool = "compose_user_packet" -> {ComposedPacket}
      [] tool = "request_additional_docs" -> DocsResponses(args[1])
      [] tool = "governance_log" -> LogRecords(args[1])
      [] tool = "interest_policy_resolver" -> ResolverResults

\* the request map a wrapper sends for a tool
WrapperRequest(tool) ==
    CASE tool = "policy_docs_retriever" ->
            _wrap_policy_docs_retriever_request(_build_policy_query(SmokeApplication), 5)
      [] tool = "risk_scoring_api" ->
            _wrap_risk_scoring_api_request(_build_risk_payload(SmokeApplication))
      [] tool = "get_policy_by_id" ->
            _wrap_get_policy_by_id_request(<<"chunk-xyz", "chunk-001">>)
      [] tool = "compose_user_packet" ->
            _wrap_compose_user_packet_request([application_id |-> "APP-001"])
      [] tool = "request_additional_docs" ->
            _wrap_request_additional_docs_request(<<"Collateral ownership evidence">>)
      [] tool = "governance_log" ->
            _wrap_governance_log_request("problem_received", [application_id |-> "APP-001"])
      [] tool = "interest_policy_resolver" ->
            _wrap_interest_policy_resolver_request(<<ChunkXyz>>, "Med")

\* the request maps a host may give a handler: what the wrapper sends, and
\* the same with keys missing
HandlerRequests(tool) == Restrictions(WrapperRequest(tool))

\* the response maps a host may give a wrapper: what the handler builds for a
\* request of the wrapper, and the same with keys missing
WrapperResponses(tool) ==
    LET args == handler_args(tool, WrapperRequest(tool)).returns
    IN  UNION {Restrictions(handler_response(tool, args, result)) :
                  result \in ToolResults(tool, args)}

\* the entities given to the converters
Entities(kind) ==
    CASE kind = "PolicyChunk" -> ChunkPool \cup {CanonicalChunk("chunk-xyz")}
      [] kind = "RiskFeature" ->
            {CreditFeature, DtiFeature, RiskFeature("AGE", "Account age", None, "decrease", 0)}
      [] kind = "ReasonCode" -> {CreditReason, DtiReason, CredReason}
      [] kind = "RiskScoreResult" -> RiskResults
      [] kind = "GovernanceLogRecord" ->
            LogRecords("problem_received") \cup LogRecords("packet_composed")
      [] kind = "InterestBand" ->
            (ResolverResults \ {None}) \cup {InterestBand(0, 8500, "chunk-xyz", <<>>)}

EntityKinds ==
    {"PolicyChunk", "RiskFeature", "ReasonCode", "RiskScoreResult",
     "GovernanceLogRecord", "InterestBand"}

AdapterInput(side, tool, map) == [side |-> side, tool |-> tool, map |-> map]

AdapterInputs ==
    UNION ({{AdapterInput("handler", tool, m) : m \in HandlerRequests(tool)} :
               tool \in ToolNames}
           \cup {{AdapterInput("wrapper", tool, m) : m \in WrapperResponses(tool)} :
                    tool \in ToolNames}
           \cup {{AdapterInput("entity", kind, e) : e \in Entities(kind)} :
                    kind \in EntityKinds})

\* AgnosticToolAdapter.invoke: the handler on a request map
InvokeHandler ==
    /\ pc = "adapter"
    /\ adapter_input.side = "handler"
    /\ LET tool == adapter_input.tool
           args == handler_args(tool, adapter_input.map)
       IN  IF "raises" \in DOMAIN args
           THEN adapter_output' = args
           ELSE \E result \in ToolResults(tool, args.returns) :
                   adapter_output' =
                       Handled(args.returns,
                               handler_response(tool, args.returns, result))
    /\ pc' = "adapted"
    /\ UNCHANGED <<self, via_adapter, application, governance_ids, policy_chunks,
                   risk_result, resolved_policies, policy_citations, risk_tier,
                   reasons, requested_documents, tool_response_id, interest_band,
                   user_packet_payload, user_packet, response, raised, trace,
                   log_counter, quote_text, quote_result, adapter_input,
                   running, frames>>

\* the _call of a wrapper on the response map of the host
CallWrapper ==
    /\ pc = "adapter"
    /\ adapter_input.side = "wrapper"
    /\ adapter_output' = _call(adapter_input.tool, adapter_input.map)
    /\ pc' = "adapted"
    /\ UNCHANGED <<self, via_adapter, application, governance_ids, policy_chunks,
                   risk_result, resolved_policies, policy_citations, risk_tier,
                   reasons, requested_documents, tool_response_id, interest_band,
                   user_packet_payload, user_packet, response, raised, trace,
                   log_counter, quote_text, quote_result, adapter_input,
                   running, frames>>

\* an entity through its _to_dict and its _from_dict
ConvertEntity ==
    /\ pc = "adapter"
    /\ adapter_input.side = "entity"
    /\ adapter_output' = Value(to_dict_from_dict(adapter_input.tool, adapter_input.map))
    /\ pc' = "adapted"
    /\ UNCHANGED <<self, via_adapter, application, governance_ids, policy_chunks,
                   risk_result, resolved_policies, policy_citations, risk_tier,
                   reasons, requested_documents, tool_response_id, interest_band,
                   user_packet_payload, user_packet, response, raised, trace,
                   log_counter, quote_text, quote_result, adapter_input,
                   running, frames>>

InitAdapter ==
    /\ adapter_input \in AdapterInputs
    /\ adapter_output = None
    /\ pc = "adapter"
    /\ self = [interest_policy_resolver |-> FALSE, policy_top_k |-> 5]
    /\ via_adapter = TRUE
    /\ application = None
    /\ governance_ids = <<>>
    /\ policy_chunks = None
    /\ risk_result = None
    /\ resolved_policies = None
    /\ policy_citations = None
    /\ risk_tier = None
    /\ reasons = None
    /\ requested_documents = None
    /\ tool_response_id = None
    /\ interest_band = None
    /\ user_packet_payload = None
    /\ user_packet = None
    /\ response = None
    /\ raised = None
    /\ trace = <<>>
    /\ log_counter = 0
    /\ quote_text = <<>>
    /\ quote_result = None
    /\ running = 1
    /\ frames = EmptyDict

NextAdapter ==
    \/ InvokeHandler
    \/ CallWrapper
    \/ ConvertEntity

SpecAdapter == InitAdapter /\ [][NextAdapter]_vars

(***************************************************************************)
(* Several assess calls on one LoanRiskAssistant, one after another or     *)
(* interleaved: every call has its own application and its own locals; the *)
(* assistant's fields and the tools are shared.                            *)
(***************************************************************************)
\* the parameter and the locals of the running assess call
Locals ==
    [application |-> application, pc |-> pc, governance_ids |-> governance_ids,
     policy_chunks |-> policy_chunks, risk_result |-> risk_result,
     resolved_policies |-> resolved_policies, policy_citations |-> policy_citations,
     risk_tier |-> risk_tier, reasons |-> reasons,
     requested_documents |-> requested_documents,
     tool_response_id |-> tool_response_id, interest_band |-> interest_band,
     user_packet_payload |-> user_packet_payload, user_packet |-> user_packet,
     response |-> response, raised |-> raised]

NewFrameKeepingIds(app) ==
    [application |-> app, pc |-> "start", governance_ids |-> governance_ids,
     policy_chunks |-> None, risk_result |-> None, resolved_policies |-> None,
     policy_citations |-> None, risk_tier |-> None, reasons |-> None,
     requested_documents |-> None, tool_response_id |-> None,
     interest_band |-> None, user_packet_payload |-> None, user_packet |-> None,
     response |-> None, raised |-> None]

\* the parameter and the locals of an assess call that begins: nothing of an
\* earlier call
NewFrame(app) ==
    [application |-> app, pc |-> "start", governance_ids |-> <<>>,
     policy_chunks |-> None, risk_result |-> None, resolved_policies |-> None,
     policy_citations |-> None, risk_tier |-> None, reasons |-> None,
     requested_documents |-> None, tool_response_id |-> None,
     interest_band |-> None, user_packet_payload |-> None, user_packet |-> None,
     response |-> None, raised |-> None]

ResumeSharedIds(frame) ==
    /\ application' = frame.application
    /\ pc' = frame.pc
    /\ governance_ids' = governance_ids
    /\ policy_chunks' = frame.policy_chunks
    /\ risk_result' = frame.risk_result
    /\ resolved_policies' = frame.resolved_policies
    /\ policy_citations' = frame.policy_citations
    /\ risk_tier' = frame.risk_tier
    /\ reasons' = frame.reasons
    /\ requested_documents' = frame.requested_documents
    /\ tool_response_id' = frame.tool_response_id
    /\ interest_band' = frame.interest_band
    /\ user_packet_payload' = frame.user_packet_payload
    /\ user_packet' = frame.user_packet
    /\ response' = frame.response
    /\ raised' = frame.raised

\* a call runs on with the parameter and the locals it had: they are its own
Resume(frame) ==
    /\ application' = frame.application
    /\ pc' = frame.pc
    /\ governance_ids' = frame.governance_ids
    /\ policy_chunks' = frame.policy_chunks
    /\ risk_result' = frame.risk_result
    /\ resolved_policies' = frame.resolved_policies
    /\ policy_citations' = frame.policy_citations
    /\ risk_tier' = frame.risk_tier
    /\ reasons' = frame.reasons
    /\ requested_documents' = frame.requested_documents
    /\ tool_response_id' = frame.tool_response_id
    /\ interest_band' = frame.interest_band
    /\ user_packet_payload' = frame.user_packet_payload
    /\ user_packet' = frame.user_packet
    /\ response' = frame.response
    /\ raised' = frame.raised

\* the calls made so far
Calls == {running} \cup DOMAIN frames

Finished(frame) == frame.pc \in {"done", "faulted"}

\* the applications of the calls: the one of the tests, and one that asks for
\* no document
CallApplications ==
    {SmokeApplication,
     [application_id |-> "APP-001",
      borrower |-> [credit_score |-> 610, employment_type |-> "salaried",
                    income_verified |-> TRUE],
      loan |-> [collateral_required |-> FALSE], region |-> "NY",
      product |-> "smb_term", context |-> None]}

\* The calls share the assistant's fields, which assess only reads, and the
\* tools; of the tools only the logger keeps something between its calls
\* (its count).  A call is therefore overtaken where it is about to call the
\* logger, or when it has ended.
AtLoggerCallOrEnded == pc \in LogPositions \cup {"done", "faulted"}

\* the host calls assess again, after the calls before have returned or
\* raised, or while one of them is running
StartCall ==
    /\ Cardinality(Calls) < MaxCalls
    /\ AtLoggerCallOrEnded
    /\ \E app \in CallApplications :
        /\ running' = Cardinality(Calls) + 1
        /\ frames' = (running :> Locals) @@ frames
        /\ Resume(NewFrame(app))
    /\ UNCHANGED <<self, via_adapter, trace, log_counter, quote_text, quote_result,
                   adapter_input, adapter_output>>

\* another call that has not ended runs on; the running one waits
Switch ==
    /\ AtLoggerCallOrEnded
    /\ \E other \in DOMAIN frames :
        /\ ~Finished(frames[other])
        /\ running' = other
        /\ frames' = (running :> Locals) @@ [c \in DOMAIN frames \ {other} |-> frames[c]]
        /\ Resume(frames[other])
    /\ UNCHANGED <<self, via_adapter, trace, log_counter, quote_text, quote_result,
                   adapter_input, adapter_output>>

\* what the tools do for the calls: two values of the retriever, of the scorer
\* and of the resolver, the documents of get_policy_by_id as they were
\* retrieved, a request id of the document request, and a fault of the scorer
CallsToolResults ==
    trace = <<>>
    \/ LET e == trace[Len(trace)]
       IN  IF e.fault # "" THEN e.tool = "risk_scoring_api"
           ELSE CASE e.tool = "policy_docs_retriever" ->
                        e.ret \in {<<ChunkXyz>>, <<Chunk001, Chunk002>>}
                  [] e.tool = "risk_scoring_api" ->
                        e.ret \in {[score |-> 550, features |-> <<CreditFeature>>,
                                    reason_codes |-> <<CreditReason>>],
                                   [score |-> 550, features |-> <<>>,
                                    reason_codes |-> <<CredReason>>]}
                  [] e.tool = "get_policy_by_id" ->
                        /\ e.ret # EmptyDict
                        /\ \A id \in DOMAIN e.ret :
                              e.ret[id] \in ChunkPool /\ e.ret[id].chunk_id = id
                  [] e.tool = "request_additional_docs" ->
                        /\ e.ret # None
                        /\ DOMAIN e.ret = {"requested", "request_id"}
                  [] OTHER -> TRUE

\* a step of the running call
StepOfCall == Next /\ CallsToolResults'

\* an assistant with an interest resolver, and the first call
InitCalls ==
    /\ via_adapter = FALSE
    /\ InitAssess
    /\ self.interest_policy_resolver
    /\ application = SmokeApplication

NextCalls ==
    \/ StepOfCall
    \/ StartCall
    \/ Switch

SpecCalls == InitCalls /\ [][NextCalls]_vars

(***************************************************************************)
(* The properties.                                                         *)
(***************************************************************************)
\* the calls made on a tool that returned, in order
ReturnedCalls(tool) == SelectSeq(trace, LAMBDA e : e.tool = tool /\ e.fault = "")

\* assess has returned a result
Returns == response # None

\* what the tools returned to the assess call that has returned
ScorerResult == ReturnedCalls("risk_scoring_api")[1].ret

RetrieverResult == ReturnedCalls("policy_docs_retriever")[1].ret

\* C1: the tier assess reports is "Low" iff the score the risk scorer returned
\* is below 34, "Med" iff it is at least 34 and below 67, "High" iff it is at
\* least 67 (scores in tenths of a point).
C1_TierFollowsScore ==
    Returns =>
        LET s == ScorerResult.score
            tier == response.risk_score.tier
        IN  /\ response.risk_score.value = s
            /\ tier = "Low" <=> s < 340
            /\ tier = "Med" <=> (340 <= s /\ s < 670)
            /\ tier = "High" <=> s >= 670
            /\ s = 340 => tier = "Med"
            /\ s = 670 => tier = "High"

\* C1 witness: assess returned for a score of exactly 34.0, and for it "Med"
C1_Witness ==
    Returns /\ ScorerResult.score = 340 /\ response.risk_score.tier = "Med"

\* C2: the requested_documents assess returns are in strictly ascending
\* order, so sorted and without a string twice.
C2_DocumentsSortedNoDuplicates ==
    Returns =>
        LET docs == response.requested_documents
        IN  \A i, j \in 1..Len(docs) : i < j => StrLess(docs[i], docs[j])

\* C2 witness: assess returned at least three documents, one of them named by
\* more than one source
C2_Witness ==
    /\ Returns
    /\ Len(response.requested_documents) >= 3
    /\ Len(AddedDocuments(application, risk_result, resolved_policies))
          > Len(response.requested_documents)

\* the resolver is configured and returned a band to the assess call that
\* has returned
ResolverGaveBand ==
    /\ Returns
    /\ self.interest_policy_resolver
    /\ ReturnedCalls("interest_policy_resolver")[1].ret # None

ResolverBand == ReturnedCalls("interest_policy_resolver")[1].ret

\* r is apr rounded to a hundredth, both in thousandths
IsRoundedTo2(r, apr) == r % 10 = 0 /\ r - apr < 5 /\ apr - r < 5

\* C3 as amended: when the configured resolver returns a band, assess reports
\* that band whatever the chunks' metadata hold: its bounds rounded to two
\* decimals, its reference as basis and its conditions in
\* interest_rate_suggestion, the band itself in the user-packet payload, and
\* policy_gap false.
C3_ResolverBandReportedRounded ==
    ResolverGaveBand =>
        LET band == ResolverBand
            suggestion == response.interest_rate_suggestion
        IN  /\ suggestion # None
            /\ IsRoundedTo2(suggestion.band_apr_percent[1], band.min_apr)
            /\ IsRoundedTo2(suggestion.band_apr_percent[2], band.max_apr)
            /\ suggestion.basis = band.policy_reference
            /\ suggestion.conditions = band.conditions
            /\ user_packet_payload.interest_band = band
            /\ response.compliance.policy_gap = FALSE

\* C3 as stated: interest_rate_suggestion holds exactly the resolver's
\* minimum and maximum APR.
C3_ResolverBandReportedVerbatim ==
    ResolverGaveBand =>
        LET band == ResolverBand
            suggestion == response.interest_rate_suggestion
        IN  /\ suggestion # None
            /\ suggestion.band_apr_percent = <<band.min_apr, band.max_apr>>
            /\ suggestion.basis = band.policy_reference
            /\ suggestion.conditions = band.conditions
            /\ user_packet_payload.interest_band = band
            /\ response.compliance.policy_gap = FALSE

\* C3 witness: the resolver returned a band while a resolved chunk carries a
\* complete band of its own
C3_Witness ==
    /\ ResolverGaveBand
    /\ \E i \in 1..Len(resolved_policies) :
          /\ "interest_band" \in DOMAIN resolved_policies[i].metadata
          /\ {"min_apr", "max_apr"} \subseteq DOMAIN resolved_policies[i].metadata.interest_band
          /\ resolved_policies[i].metadata.interest_band.max_apr # ResolverBand.max_apr

\* no resolved chunk has an interest_band with both min_apr and max_apr
NoChunkWithBothAprs ==
    \A i \in 1..Len(resolved_policies) :
        "interest_band" \in DOMAIN resolved_policies[i].metadata
            => ~({"min_apr", "max_apr"}
                    \subseteq DOMAIN resolved_policies[i].metadata.interest_band)

\* C4: without a resolver and without a resolved chunk whose interest_band has
\* both min_apr and max_apr, assess returns no interest_rate_suggestion and
\* policy_gap true.
C4_NoBandIsPolicyGap ==
    (Returns /\ ~self.interest_policy_resolver /\ NoChunkWithBothAprs) =>
        /\ response.interest_rate_suggestion = None
        /\ response.compliance.policy_gap = TRUE

\* C4 witness: assess returned a policy gap with no resolver and a resolved
\* chunk whose interest_band lacks max_apr
C4_Witness ==
    /\ Returns
    /\ ~self.interest_policy_resolver
    /\ NoChunkWithBothAprs
    /\ \E i \in 1..Len(resolved_policies) :
          /\ "interest_band" \in DOMAIN resolved_policies[i].metadata
          /\ "min_apr" \in DOMAIN resolved_policies[i].metadata.interest_band
    /\ response.compliance.policy_gap = TRUE

\* the number of words of a text: the characters that begin a run of
\* non-whitespace
WordCount(text) ==
    Cardinality({i \in 1..Len(text) :
                    ~IsSpace(text[i]) /\ (i = 1 \/ IsSpace(text[i - 1]))})

\* C5: quote returns the text unchanged when it has at most 50 words, and
\* otherwise its first 50 words joined by single blanks (the i-th word of
\* every text is Word(i)).
C5_QuoteFirstFiftyWords ==
    pc = "quoted" =>
        quote_result = IF WordCount(quote_text) <= 50 THEN quote_text
                       ELSE TextOf(50, <<" ">>, FALSE, FALSE)

\* C5 witness: quote cut a text of more than 50 words
C5_Witness ==
    pc = "quoted" /\ WordCount(quote_text) = 51 /\ quote_result # quote_text

\* C6: governance_log_ids of a result holds the log id the logger returned to
\* each of its calls of the assessment, in call order: 4 ids when no document
\* is requested, 5 when documents are requested.
C6_LogIdsAreTheLoggerCalls ==
    Returns =>
        LET ids == response.governance_log_ids
            calls == SelectSeq(trace, LAMBDA e : e.tool = "governance_log")
        IN  /\ Len(ids) = Len(calls)
            /\ \A i \in 1..Len(ids) : ids[i] = calls[i].ret.log_id
            /\ Len(ids) = IF response.requested_documents = <<>> THEN 4 ELSE 5

\* C6 witness: assess returned after requesting documents, with five log ids
C6_Witness ==
    /\ Returns
    /\ response.requested_documents # <<>>
    /\ Len(response.governance_log_ids) = 5

\* the event types of the governance_log calls made so far, in order
EventsLogged ==
    LET calls == SelectSeq(trace, LAMBDA e : e.tool = "governance_log")
    IN  [i \in 1..Len(calls) |-> calls[i].args[1]]

IsPrefix(s, t) == Len(s) <= Len(t) /\ \A i \in 1..Len(s) : s[i] = t[i]

\* the tool whose return triggers an event
TriggerOf(event_type) ==
    CASE event_type = "retrieval_done" -> "policy_docs_retriever"
      [] event_type = "risk_scored" -> "risk_scoring_api"
      [] event_type = "docs_requested" -> "request_additional_docs"
      [] event_type = "packet_composed" -> "compose_user_packet"

\* C7: at every moment of an assessment the events logged so far are a prefix
\* of problem_received, retrieval_done, risk_scored, docs_requested (or none),
\* packet_composed; problem_received is the first call made on any tool; and
\* every other event is logged after a call of its tool has returned.
C7_EventsOrderedAfterTheirCalls ==
    /\ \/ IsPrefix(EventsLogged, <<"problem_received", "retrieval_done", "risk_scored",
                                   "docs_requested", "packet_composed">>)
       \/ IsPrefix(EventsLogged, <<"problem_received", "retrieval_done", "risk_scored",
                                   "packet_composed">>)
    /\ trace # <<>> =>
          trace[1].tool = "governance_log" /\ trace[1].args[1] = "problem_received"
    /\ \A i \in 1..Len(trace) :
          (trace[i].tool = "governance_log" /\ trace[i].args[1] # "problem_received")
              => \E j \in 1..(i - 1) :
                    /\ trace[j].tool = TriggerOf(trace[i].args[1])
                    /\ trace[j].fault = ""
    /\ \A i \in 1..Len(trace) :
          (trace[i].tool = "request_additional_docs" /\ trace[i].fault = "" /\ Returns)
              => \E j \in (i + 1)..Len(trace) :
                    trace[j].tool = "governance_log" /\ trace[j].args[1] = "docs_requested"

\* C7 witness: assess returned after calling every tool, the resolver and the
\* document requester included: eleven calls, five of them logs
C7_Witness ==
    Returns /\ Len(trace) = 11 /\ Len(EventsLogged) = 5

\* the inputs of the end-to-end scenario of the tests
ScenarioApplication ==
    /\ application.borrower = [credit_score |-> 610, income_verified |-> FALSE]
    /\ application.loan = [collateral_required |-> TRUE]

ScenarioScoreAndRetrieval ==
    /\ ScorerResult.score = 550
    /\ [i \in 1..Len(ScorerResult.reason_codes) |-> ScorerResult.reason_codes[i].code]
          = <<"CREDIT_SCORE">>
    /\ Len(RetrieverResult) = 1
    /\ RetrieverResult[1].metadata.interest_band.min_apr = 6000
    /\ RetrieverResult[1].metadata.interest_band.max_apr = 8500
    /\ RetrieverResult[1].metadata.required_documents = <<"Collateral appraisal report">>

\* the documents a sequence of documents names
Named(docs) == {docs[i] : i \in 1..Len(docs)}

\* C8: assess called directly on the scenario, policy-by-id returning the
\* retrieved chunk itself and no resolver configured, returns tier "Med", both
\* collateral documents among the requested ones, the band [6.0, 8.5],
\* policy_gap false, some governance log ids and the composer's packet.
C8_DirectScenario ==
    (/\ Returns
     /\ ~via_adapter
     /\ ~self.interest_policy_resolver
     /\ ScenarioApplication
     /\ ScenarioScoreAndRetrieval
     /\ ReturnedCalls("get_policy_by_id")[1].ret
           = (RetrieverResult[1].chunk_id :> RetrieverResult[1]))
    => /\ response.risk_score.tier = "Med"
       /\ {"Collateral ownership evidence", "Collateral appraisal report"}
             \subseteq Named(response.requested_documents)
       /\ response.interest_rate_suggestion # None
       /\ response.interest_rate_suggestion.band_apr_percent = <<6000, 8500>>
       /\ response.compliance.policy_gap = FALSE
       /\ response.governance_log_ids # <<>>
       /\ response.user_packet = ReturnedCalls("compose_user_packet")[1].ret

\* C8 witness: assess returned for the scenario
C8_Witness ==
    /\ Returns
    /\ ~via_adapter
    /\ ~self.interest_policy_resolver
    /\ ScenarioApplication
    /\ ScenarioScoreAndRetrieval
    /\ ReturnedCalls("get_policy_by_id")[1].ret
          = (RetrieverResult[1].chunk_id :> RetrieverResult[1])
    /\ response.interest_rate_suggestion # None

\* C9: run on the scenario through the adapters, policy-by-id returning for
\* every id asked a canonical chunk with empty metadata and no resolver
\* listed, returns tier "Med", the band [6.0, 8.5] and both collateral
\* documents among the requested ones.
C9_AdapterScenario ==
    (/\ Returns
     /\ via_adapter
     /\ ~self.interest_policy_resolver
     /\ ScenarioApplication
     /\ ScenarioScoreAndRetrieval
     /\ ReturnedCalls("get_policy_by_id")[1].ret
           = (RetrieverResult[1].chunk_id :> CanonicalChunk(RetrieverResult[1].chunk_id)))
    => /\ response.risk_score.tier = "Med"
       /\ response.interest_rate_suggestion # None
       /\ response.interest_rate_suggestion.band_apr_percent = <<6000, 8500>>
       /\ {"Collateral ownership evidence", "Collateral appraisal report"}
             \subseteq Named(response.requested_documents)

\* C10: once a tool call has raised, the fault that left assess is the one
\* the tool raised, assess has returned nothing, and the raising call is the
\* last call made on any tool; and no fault of a tool is kept from the caller.
C10_FaultAbortsAssess ==
    /\ raised # None =>
          /\ pc = "faulted"
          /\ response = None
          /\ trace # <<>>
          /\ Some(trace[Len(trace)].fault) = raised
    /\ \A i \in 1..Len(trace) :
          trace[i].fault # "" => (raised # None /\ i = Len(trace))

\* C10 witness: the document requester raised, after six calls that returned
C10_Witness ==
    /\ raised # None
    /\ Len(trace) = 7
    /\ trace[7].tool = "request_additional_docs"
    /\ Len(governance_ids) = 3

\* the keys a request map given to a handler, and a response map given to a
\* wrapper, must hold: the collaborator's inputs and outputs
RequiredKeys(side, tool) ==
    IF side = "handler"
    THEN CASE tool = "policy_docs_retriever" -> {"query"}
           [] tool = "risk_scoring_api" -> {"payload"}
           [] tool = "get_policy_by_id" -> {"ids"}
           [] tool = "compose_user_packet" -> {"data"}
           [] tool = "request_additional_docs" -> {"documents"}
           [] tool = "governance_log" -> {"event_type"}
           [] tool = "interest_policy_resolver" -> {"policy_chunks", "risk_tier"}
    ELSE CASE tool = "policy_docs_retriever" -> {"chunks"}
           [] tool = "risk_scoring_api" -> {"score"}
           [] tool = "get_policy_by_id" -> {"chunks"}
           [] tool = "compose_user_packet" -> {"packet"}
           [] tool = "request_additional_docs" -> {"request"}
           [] tool = "governance_log" -> {"event_type", "log_id"}
           [] tool = "interest_policy_resolver" -> {"band"}

\* C11: a handler given a request map, and a wrapper given a response map,
\* that lacks a required key raises an error that names a missing key and the
\* tool; it returns nothing.
C11_MissingKeyRejected ==
    (pc = "adapted" /\ adapter_input.side \in {"handler", "wrapper"}) =>
        LET missing == RequiredKeys(adapter_input.side, adapter_input.tool)
                          \ DOMAIN adapter_input.map
        IN  missing # {} =>
                /\ "raises" \in DOMAIN adapter_output
                /\ adapter_output.names \cap missing # {}
                /\ adapter_input.tool \in adapter_output.names

\* C12: an entity converted to its map and back is equal to the entity, field
\* by field, for every kind of entity.
C12_ToDictFromDictGivesTheEntity ==
    (pc = "adapted" /\ adapter_input.side = "entity") =>
        /\ "returns" \in DOMAIN adapter_output
        /\ DOMAIN adapter_output.returns = DOMAIN adapter_input.map
        /\ \A field \in DOMAIN adapter_input.map :
              adapter_output.returns[field] = adapter_input.map[field]

\* C12 witness: a governance log record without a payload hash, whose map has
\* no payload_hash key, came back
C12_Witness ==
    /\ pc = "adapted"
    /\ adapter_input.side = "entity"
    /\ adapter_input.tool = "GovernanceLogRecord"
    /\ adapter_input.map.payload_hash = None
    /\ "payload_hash" \notin DOMAIN _governance_record_to_dict(adapter_input.map)
    /\ adapter_output = Value(adapter_input.map)

\* C13: the risk_score.value of every result assess returns is within 0 and
\* 100 (scores in tenths of a point).
C13_ScoreWithinScale ==
    Returns => (0 <= response.risk_score.value /\ response.risk_score.value <= 100 * 10)

\* assess is past its call of _resolve_policy_chunks and the derivations that
\* follow it
AfterResolve ==
    pc \in {"request_docs", "log_docs", "band", "compose", "log_packet", "done"}

\* what policy-by-id returned to the running assess call: no mapping when
\* nothing was retrieved and it was not called
PolicyByIdReturned ==
    IF RetrieverResult = <<>> THEN EmptyDict
    ELSE ReturnedCalls("get_policy_by_id")[1].ret

\* C16: the resolved list is as long as the retrieved list, and at every
\* position holds the chunk policy-by-id returned under the retrieved chunk's
\* id when the mapping has that id, and the retrieved chunk itself otherwise.
C16_ResolvedChunkPerRetrievedChunk ==
    AfterResolve =>
        /\ Len(resolved_policies) = Len(RetrieverResult)
        /\ \A i \in 1..Len(RetrieverResult) :
              LET chunk_id == RetrieverResult[i].chunk_id
              IN  resolved_policies[i] =
                      IF chunk_id \in DOMAIN PolicyByIdReturned
                      THEN PolicyByIdReturned[chunk_id]
                      ELSE RetrieverResult[i]

\* C16 witness: two chunks retrieved, policy-by-id returned a mapping for the
\* first id alone: the first chunk was replaced and the second kept
C16_Witness ==
    /\ Returns
    /\ Len(RetrieverResult) = 2
    /\ DOMAIN PolicyByIdReturned = {RetrieverResult[1].chunk_id}
    /\ RetrieverResult[2].chunk_id # RetrieverResult[1].chunk_id
    /\ resolved_policies[1] # RetrieverResult[1]
    /\ resolved_policies[2] = RetrieverResult[2]

\* the sources of the entries the reasons are cut from: one feature entry per
\* reason code of the scorer, then one policy entry per resolved chunk with a
\* guidance key
ReasonSources ==
    LET codes == ScorerResult.reason_codes
        guided == SelectSeq(resolved_policies,
                            LAMBDA chunk : "guidance" \in DOMAIN chunk.metadata)
    IN  [i \in 1..Len(codes) |-> [type |-> "feature", id_or_code |-> codes[i].code]]
        \o [i \in 1..Len(guided) |-> [type |-> "policy", id_or_code |-> guided[i].chunk_id]]

\* C17: the reasons are at most 8, no feature entry follows a policy entry,
\* and they are the first 8 of the feature entries followed by the policy
\* entries.
C17_ReasonsFirstEightFeaturesFirst ==
    AfterResolve =>
        /\ Len(reasons) <= 8
        /\ \A i, j \in 1..Len(reasons) :
              (i < j /\ reasons[i].source.type = "policy")
                  => reasons[j].source.type = "policy"
        /\ Len(reasons) = IF Len(ReasonSources) < 8 THEN Len(ReasonSources) ELSE 8
        /\ \A i \in 1..Len(reasons) : reasons[i].source = ReasonSources[i]
        /\ Returns => response.reasons = reasons

\* C17 witness: seven reason codes and at least two chunks with guidance: the
\* eighth reason is a policy entry and the ninth entry was cut
C17_Witness ==
    /\ Returns
    /\ Len(ScorerResult.reason_codes) = 7
    /\ Len(ReasonSources) > 8
    /\ Len(response.reasons) = 8
    /\ response.reasons[8].source.type = "policy"

\* C18: the policy citations are at most 5 and are, in order, the chunk_id,
\* title, section and quote of the first 5 resolved chunks.
C18_CitationsFirstFive ==
    AfterResolve =>
        /\ Len(policy_citations) <= 5
        /\ Len(policy_citations) =
              IF Len(resolved_policies) < 5 THEN Len(resolved_policies) ELSE 5
        /\ \A i \in 1..Len(policy_citations) :
              policy_citations[i] =
                  [chunk_id |-> resolved_policies[i].chunk_id,
                   title |-> resolved_policies[i].title,
                   section |-> resolved_policies[i].section,
                   quote |-> quote(resolved_policies[i].text)]
        /\ Returns => response.policy_citations = policy_citations

\* C18 witness: assess returned five citations for more than five resolved
\* chunks
C18_Witness ==
    /\ Returns
    /\ Len(resolved_policies) > 5
    /\ Len(response.policy_citations) = 5

\* the calls made on the document requester, and the docs_requested events
\* logged
DocumentRequests == SelectSeq(trace, LAMBDA e : e.tool = "request_additional_docs")

DocsRequestedLogs ==
    SelectSeq(trace, LAMBDA e : e.tool = "governance_log" /\ e.args[1] = "docs_requested")

\* C19: the document requester is called at most once, and in a returned
\* assessment exactly once, with the sorted document list of the result, iff
\* that list is not empty; docs_requested is logged exactly when the requester
\* was called (and returned), with or without a response identifier.
C19_DocumentsRequestedIffAny ==
    /\ Len(DocumentRequests) <= 1
    /\ Len(DocsRequestedLogs) <= Len(ReturnedCalls("request_additional_docs"))
    /\ AfterResolve /\ requested_documents = <<>> => DocumentRequests = <<>>
    /\ Returns =>
          /\ Len(DocumentRequests) = IF response.requested_documents = <<>> THEN 0 ELSE 1
          /\ Len(DocsRequestedLogs) = Len(DocumentRequests)
          /\ \A i \in 1..Len(DocumentRequests) :
                /\ DocumentRequests[i].args = <<response.requested_documents>>
                /\ \A j, k \in 1..Len(DocumentRequests[i].args[1]) :
                      j < k => StrLess(DocumentRequests[i].args[1][j],
                                       DocumentRequests[i].args[1][k])
          /\ \A i \in 1..Len(DocsRequestedLogs) :
                DocsRequestedLogs[i].args[2].requested_documents
                    = response.requested_documents

\* C19 witness: the requester was called, no identifier could be extracted
\* from its response, and docs_requested was logged
C19_Witness ==
    /\ Returns
    /\ Len(DocumentRequests) = 1
    /\ Len(DocsRequestedLogs) = 1
    /\ DocsRequestedLogs[1].args[2].tool_response_id = None

\* key is present in the response with a value that is not empty
HasId(docs_response, key) ==
    key \in DOMAIN docs_response /\ docs_response[key] # ""

\* C20: the tool_response_id logged with docs_requested is the value of the
\* first of request_id, id, identifier, response_id, log_id that the
\* requester's response holds with a non-empty value, and null when the
\* response holds none of them with a non-empty value or is no dict.
C20_FirstNonEmptyIdentifier ==
    DocsRequestedLogs # <<>> =>
        LET docs_response == ReturnedCalls("request_additional_docs")[1].ret
            logged == DocsRequestedLogs[1].args[2].tool_response_id
            keys == <<"request_id", "id", "identifier", "response_id", "log_id">>
        IN  IF docs_response = None THEN logged = None
            ELSE /\ \A i \in 1..5 :
                      (/\ HasId(docs_response, keys[i])
                       /\ \A j \in 1..(i - 1) : ~HasId(docs_response, keys[j]))
                          => logged = Some(docs_response[keys[i]])
                 /\ (\A i \in 1..5 : ~HasId(docs_response, keys[i])) => logged = None

\* C20 witness: request_id is present and empty, id and log_id hold values:
\* the id was logged
C20_Witness ==
    /\ DocsRequestedLogs # <<>>
    /\ ReturnedCalls("request_additional_docs")[1].ret # None
    /\ "request_id" \in DOMAIN ReturnedCalls("request_additional_docs")[1].ret
    /\ ReturnedCalls("request_additional_docs")[1].ret.request_id = ""
    /\ HasId(ReturnedCalls("request_additional_docs")[1].ret, "log_id")
    /\ DocsRequestedLogs[1].args[2].tool_response_id = Some("REQ-2")

\* the parameter and the locals of call c, running or waiting
FrameOf(c) == IF c = running THEN Locals ELSE frames[c]

\* what a tool returned to call c: its first return to it, absent otherwise
OwnReturn(c, tool, absent) ==
    LET own == SelectSeq(trace, LAMBDA e : e.call = c /\ e.tool = tool /\ e.fault = "")
    IN  IF own = <<>> THEN absent ELSE own[1].ret

\* the log ids the logger returned to call c, in the order of c's calls
OwnLogIds(c) ==
    LET own == SelectSeq(trace, LAMBDA e :
                   e.call = c /\ e.tool = "governance_log" /\ e.fault = "")
    IN  [i \in 1..Len(own) |-> own[i].ret.log_id]

\* the policy documents call c worked with, from what the retriever and
\* get_policy_by_id returned to it
OwnPolicies(c) ==
    LET retrieved == OwnReturn(c, "policy_docs_retriever", <<>>)
    IN  IF retrieved = <<>> THEN <<>>
        ELSE _resolve_policy_chunks(retrieved, OwnReturn(c, "get_policy_by_id", EmptyDict))

OwnBand(c) ==
    _determine_interest_band(OwnReturn(c, "interest_policy_resolver", None),
                             OwnPolicies(c))

\* the result of call c as its application and the tools' returns to it give it
OwnResponse(c) ==
    LET scored == OwnReturn(c, "risk_scoring_api", None)
    IN  Response(FrameOf(c).application, scored, _tier_from_score(scored.score),
                 _build_reasons(scored, OwnPolicies(c)),
                 _build_policy_citations(OwnPolicies(c)),
                 _determine_requested_documents(FrameOf(c).application, scored,
                                                OwnPolicies(c)),
                 OwnBand(c), OwnLogIds(c),
                 OwnReturn(c, "compose_user_packet", None))

\* call c began when every other call had returned or raised
BeganAfterTheOthers(c) ==
    \A d \in Calls \ {c} :
        /\ Finished(FrameOf(d))
        /\ \A i, j \in 1..Len(trace) :
              (trace[i].call = d /\ trace[j].call = c) => i < j

\* C14: assess leaves the assistant's fields and the application as they
\* were, and after calls that returned or raised, the result of the next call
\* is what its own application and the tools' returns during that call give.
C14_NothingKeptBetweenCalls ==
    /\ [][/\ self' = self
          /\ \A c \in Calls : (FrameOf(c).application)' = FrameOf(c).application]_vars
    /\ [](\A c \in Calls :
            (FrameOf(c).pc = "done" /\ BeganAfterTheOthers(c)) =>
                FrameOf(c).response = OwnResponse(c))

\* C14 witness: the first call raised, the second one, for another
\* application, began afterwards and returned
C14_Witness ==
    /\ Calls = {1, 2}
    /\ FrameOf(1).pc = "faulted"
    /\ FrameOf(2).pc = "done"
    /\ BeganAfterTheOthers(2)
    /\ FrameOf(2).application # FrameOf(1).application
    /\ FrameOf(2).response.governance_log_ids # <<>>

\* C15: when assess calls on one assistant are interleaved, in any order, the
\* governance_log_ids of each result are the log ids returned to that call's
\* own logger calls, in its own order, and its tier, reasons, documents and
\* band are those of its own application and of the tools' returns to it.
C15_InterleavedCallsKeepTheirOwn ==
    \A c \in Calls :
        FrameOf(c).pc = "done" =>
            LET result == FrameOf(c).response
                app == FrameOf(c).application
                scored == OwnReturn(c, "risk_scoring_api", None)
            IN  /\ result.governance_log_ids = OwnLogIds(c)
                /\ result.risk_score.tier = _tier_from_score(scored.score)
                /\ result.reasons = _build_reasons(scored, OwnPolicies(c))
                /\ result.requested_documents =
                      _determine_requested_documents(app, scored, OwnPolicies(c))
                /\ result.interest_rate_suggestion = InterestRateSuggestion(OwnBand(c))

\* C15 witness: two calls returned whose logger calls alternated, for
\* different applications, scores' reasons and retrieved documents
C15_Witness ==
    /\ Calls = {1, 2}
    /\ FrameOf(1).pc = "done"
    /\ FrameOf(2).pc = "done"
    /\ FrameOf(1).response.governance_log_ids[2]
          # FrameOf(1).response.governance_log_ids[1] + 1
    /\ FrameOf(2).response.governance_log_ids[2]
          # FrameOf(2).response.governance_log_ids[1] + 1
    /\ FrameOf(1).application # FrameOf(2).application
    /\ OwnReturn(1, "risk_scoring_api", None) # OwnReturn(2, "risk_scoring_api", None)
    /\ OwnReturn(1, "policy_docs_retriever", <<>>)
          # OwnReturn(2, "policy_docs_retriever", <<>>)

\* the band has been determined in the running assess call
AfterBand == user_packet_payload # None

\* no band came from a resolver: none is configured, or it returned null
NoResolverBand ==
    \/ ~self.interest_policy_resolver
    \/ /\ ReturnedCalls("interest_policy_resolver") # <<>>
       /\ ReturnedCalls("interest_policy_resolver")[1].ret = None

\* the i-th resolved chunk has interest_band metadata with both APRs
BothAprs(i) ==
    /\ "interest_band" \in DOMAIN resolved_policies[i].metadata
    /\ {"min_apr", "max_apr"} \subseteq DOMAIN resolved_policies[i].metadata.interest_band

\* C21: without a resolver, or when the resolver returned null, the band is
\* built from the first resolved chunk whose interest_band has both min_apr
\* and max_apr (0 counts as present; chunks without or with an incomplete
\* interest_band are skipped), its reference defaulting to the chunk's id and
\* its conditions to the empty list; later qualifying chunks are ignored.
C21_BandOfFirstCompleteChunk ==
    (AfterBand /\ NoResolverBand) =>
        /\ (\A i \in 1..Len(resolved_policies) : ~BothAprs(i)) => interest_band = None
        /\ \A i \in 1..Len(resolved_policies) :
              (BothAprs(i) /\ \A j \in 1..(i - 1) : ~BothAprs(j)) =>
                  LET chunk == resolved_policies[i]
                      data == chunk.metadata.interest_band
                  IN  /\ interest_band # None
                      /\ interest_band.min_apr = data.min_apr
                      /\ interest_band.max_apr = data.max_apr
                      /\ interest_band.policy_reference =
                            IF "policy_reference" \in DOMAIN data
                            THEN data.policy_reference ELSE chunk.chunk_id
                      /\ interest_band.conditions =
                            IF "conditions" \in DOMAIN data THEN data.conditions ELSE <<>>

\* C21 witness: the resolver returned null; the first resolved chunk has an
\* incomplete band and is skipped, the second one has a minimum of 0 and
\* neither reference nor conditions, and the band is built from it
C21_Witness ==
    /\ AfterBand
    /\ self.interest_policy_resolver
    /\ NoResolverBand
    /\ Len(resolved_policies) = 2
    /\ "interest_band" \in DOMAIN resolved_policies[1].metadata
    /\ ~BothAprs(1)
    /\ BothAprs(2)
    /\ resolved_policies[2].metadata.interest_band.min_apr = 0
    /\ interest_band = InterestBand(0, 9504, resolved_policies[2].chunk_id, <<>>)

\* the place of a letter in the alphabet, 0 for any other character
LetterIndex(c) ==
    IF \E j \in 1..26 : LowerCase[j] = c \/ UpperCase[j] = c
    THEN CHOOSE j \in 1..26 : LowerCase[j] = c \/ UpperCase[j] = c
    ELSE 0

\* code starts with the letters of prefix, in upper or lower case
StartsWithIgnoringCase(code, prefix) ==
    /\ Len(Chars(code)) >= Len(Chars(prefix))
    /\ \A i \in 1..Len(Chars(prefix)) :
          LetterIndex(Chars(code)[i]) = LetterIndex(Chars(prefix)[i])

\* the union of the documents of the rules, for an application whose loan
\* has or has not what counts as collateral documents
DocumentsOfRules(has_collateral_documents) ==
    LET borrower == application.borrower
        loan == application.loan
        codes == {ScorerResult.reason_codes[i].code :
                      i \in 1..Len(ScorerResult.reason_codes)}
        required(i) == IF "required_documents" \in DOMAIN resolved_policies[i].metadata
                       THEN resolved_policies[i].metadata.required_documents ELSE <<>>
    IN  (IF "employment_type" \in DOMAIN borrower
            /\ borrower.employment_type = "self_employed"
         THEN {"Most recent 2 years of tax returns"} ELSE {})
        \cup (IF "income_verified" \notin DOMAIN borrower \/ ~borrower.income_verified
              THEN {"Recent income verification (e.g., pay stubs or bank statements)"}
              ELSE {})
        \cup (IF loan.collateral_required /\ ~has_collateral_documents
              THEN {"Collateral ownership evidence"} ELSE {})
        \cup (IF \E code \in codes : StartsWithIgnoringCase(code, "DTI")
              THEN {"Detailed debt obligation schedule"} ELSE {})
        \cup (IF \E code \in codes : StartsWithIgnoringCase(code, "CREDIT")
              THEN {"Updated credit bureau report"} ELSE {})
        \cup UNION {{required(i)[k] : k \in 1..Len(required(i))} :
                        i \in 1..Len(resolved_policies)}

RequestedDocumentsSet ==
    {response.requested_documents[i] : i \in 1..Len(response.requested_documents)}

\* C22 as stated: the requested documents are the union of the rules'
\* documents, "Collateral ownership evidence" being one of them iff the loan
\* requires collateral and has no collateral-documents field.
C22_DocumentsUnionFieldAbsent ==
    Returns =>
        RequestedDocumentsSet =
            DocumentsOfRules("collateral_documents" \in DOMAIN application.loan)

\* C22 amended: the requested documents are the union of the rules' documents,
\* "Collateral ownership evidence" being one of them iff the loan requires
\* collateral and its collateral-documents field is missing or empty; no other
\* document is added.
C22_DocumentsUnionFieldAbsentOrEmpty ==
    Returns =>
        RequestedDocumentsSet =
            DocumentsOfRules(/\ "collateral_documents" \in DOMAIN application.loan
                             /\ application.loan.collateral_documents # <<>>)

\* C22 witness: a loan that requires collateral, with an empty list of
\* collateral documents; a reason code dti_ratio in lower case; the evidence
\* and the debt schedule were requested
C22_Witness ==
    /\ Returns
    /\ application.loan.collateral_required
    /\ "collateral_documents" \in DOMAIN application.loan
    /\ application.loan.collateral_documents = <<>>
    /\ \E i \in 1..Len(ScorerResult.reason_codes) :
          ScorerResult.reason_codes[i].code = "dti_ratio"
    /\ "Collateral ownership evidence" \in RequestedDocumentsSet
    /\ "Detailed debt obligation schedule" \in RequestedDocumentsSet
    /\ \A i \in 1..Len(resolved_policies) :
          "required_documents" \notin DOMAIN resolved_policies[i].metadata

\* the call a direct assess makes next from the position and the locals of
\* the running call, <<tool, arguments>>, and None where it makes none
DirectCall ==
    CASE pc \in LogPositions -> <<"governance_log", LogEvent(pc)>>
      [] pc = "retrieve" ->
            <<"policy_docs_retriever",
              <<_build_policy_query(application), self.policy_top_k>>>>
      [] pc = "score" -> <<"risk_scoring_api", <<_build_risk_payload(application)>>>>
      [] pc = "resolve" ->
            IF policy_chunks = <<>> THEN None
            ELSE <<"get_policy_by_id",
                   <<[i \in 1..Len(policy_chunks) |-> policy_chunks[i].chunk_id]>>>>
      [] pc = "request_docs" -> <<"request_additional_docs", <<requested_documents>>>>
      [] pc = "band" ->
            IF self.interest_policy_resolver
            THEN <<"interest_policy_resolver", <<resolved_policies, risk_tier>>>>
            ELSE None
      [] pc = "compose" -> <<"compose_user_packet", <<user_packet_payload>>>>
      [] OTHER -> None

\* the policy-by-id tool filed every chunk it returned under the chunk's own id
KeyedByOwnId ==
    \A i \in 1..Len(trace) :
        (trace[i].tool = "get_policy_by_id" /\ trace[i].fault = "") =>
            \A id \in DOMAIN trace[i].ret : trace[i].ret[id].chunk_id = id

\* the names of the application's fields
ApplicationFields ==
    {"application_id", "borrower", "loan", "region", "product", "context"}

\* the step is the one a direct assess takes from the same position and
\* locals when the tool it calls answers as it answered in this step
StepOfDirectAssess ==
    LET called == Len(trace') > Len(trace)
        e == trace'[Len(trace')]
        returned == called /\ e.fault = ""
        ret == IF called THEN e.ret ELSE None
    IN  /\ called <=> (DirectCall # None)
        /\ called => (e.tool = DirectCall[1] /\ e.args = DirectCall[2])
        /\ (called /\ e.fault # "") =>
              (raised' = Some(e.fault) /\ response' = None /\ pc' = "faulted")
        /\ (returned /\ pc \in LogPositions) =>
              governance_ids' = Append(governance_ids, ret.log_id)
        /\ (returned /\ pc = "retrieve") => policy_chunks' = ret
        /\ (returned /\ pc = "score") => risk_result' = ret
        /\ (pc = "resolve" /\ (returned \/ ~called)) =>
              LET output == IF called THEN _resolve_policy_chunks(policy_chunks, ret)
                            ELSE <<>>
              IN  /\ resolved_policies' = output
                  /\ policy_citations' = _build_policy_citations(output)
                  /\ risk_tier' = _tier_from_score(risk_result.score)
                  /\ reasons' = _build_reasons(risk_result, output)
                  /\ requested_documents' =
                        _determine_requested_documents(application, risk_result, output)
        /\ (returned /\ pc = "request_docs") => tool_response_id' = ToolResponseId(ret)
        /\ (pc = "band" /\ (returned \/ ~called)) =>
              /\ interest_band' = _determine_interest_band(ret, resolved_policies)
              /\ user_packet_payload' =
                    UserPacketPayload(application, risk_result, risk_tier, reasons,
                                      requested_documents, policy_citations,
                                      interest_band')
        /\ (returned /\ pc = "compose") => user_packet' = ret
        /\ (returned /\ pc = "log_packet") =>
              LET direct == Response(application, risk_result, risk_tier, reasons,
                                     policy_citations, requested_documents,
                                     interest_band,
                                     Append(governance_ids, ret.log_id), user_packet)
              IN  /\ \A key \in DOMAIN direct : response'[key] = direct[key]
                  /\ DOMAIN response' \ DOMAIN direct
                        = ApplicationFields \ DOMAIN direct
                  /\ \A key \in DOMAIN response' \ DOMAIN direct :
                        response'[key] = application[key]

\* C23: with the policy-by-id tool filing each chunk under its own chunk_id
\* (and the resolver wrapped exactly when one is supplied), every step of run
\* over the adapters calls the underlying tool a direct assess calls, with the
\* same arguments, and leaves the values a direct assess leaves; the result
\* has every key of the assess result with its value, and besides only the
\* application's own fields.
C23_RunIsAssessThroughAdapters ==
    [][(via_adapter /\ KeyedByOwnId') => StepOfDirectAssess]_vars

\* C23 witness: run returned after it called every tool, the resolver
\* included, policy-by-id having replaced a retrieved chunk by a revised one
\* filed under the same id, and the requester having given a request id
C23_Witness ==
    /\ via_adapter
    /\ Returns
    /\ KeyedByOwnId
    /\ self.interest_policy_resolver
    /\ ReturnedCalls("interest_policy_resolver")[1].ret # None
    /\ ReturnedCalls("get_policy_by_id") # <<>>
    /\ \E id \in DOMAIN ReturnedCalls("get_policy_by_id")[1].ret :
          ReturnedCalls("get_policy_by_id")[1].ret[id] = RevisedChunk(id)
    /\ tool_response_id # None
    /\ response.borrower = application.borrower
    /\ Len(response.governance_log_ids) = 5

\* the same without the condition on the policy-by-id tool
C23_RunIsAssessAnyFiling == [][via_adapter => StepOfDirectAssess]_vars

====
